---- MODULE Spec2Model ----
(***************************************************************************)
(* Reduction of a U(N) irrep with labels in {4,3,2,1,0} into SO(3) irreps  *)
(* (UNtoSO3.h) and into U(3) irreps (UNtoU3.h): the quanta tables, the     *)
(* Gelfand-pattern recursion with tail call elimination, the multiplicity  *)
(* maps, the level dimensionality and the test driver.                     *)
(*                                                                         *)
(* Build modelled: UNTOSO3_DISABLE_PRECALC / UNTOU3_DISABLE_PRECALC are    *)
(* defined (the headers refuse to compile otherwise), TCE is enabled.      *)
(* SpecPre follows the text of the build with the precalculation, SpecHeap *)
(* the threadprivate maps of two objects in the build with OpenMP.         *)
(* A Gelfand row is the tuple <<n4, n3, n2, n1, n0>>.  A multiplicity map  *)
(* is a function from the set of its keys to the counts.                   *)
(***************************************************************************)
EXTENDS Integers, Sequences, FiniteSets, TLC

VARIABLES
  kind,     \* the program: an UNtoSO3<> object, an UNtoU3<> object, or the test driver
  m_,       \* UNtoSO3::m_, the table written by generateM
  xyz_,     \* UNtoU3::xyz_, entry i being <<xyz_[NZ][i], xyz_[NX][i], xyz_[NY][i]>>
  mult_,    \* mult_, the table of weights and their multiplicities
  call,     \* the last member function called (or main), its arguments and,
            \* of an enumeration, whether its clear() had entries to remove,
            \* of generateM and generateXYZ, whether the table had entries
  ret,      \* the value the last getLevelDimensionality call returned
  status,   \* "ok", or how the program ended
  printed,  \* the digits of the total the driver printed, <<>> before
  pc,       \* of every thread of the team, where it is in the parallel region
  mult_tl_, \* of every thread, the map its threadprivate mult_tl_ points to
  pool,     \* the tasks created and not yet started, with their numbers
  run,      \* of every thread, the call it is running: <<>> or its loop state
  stack,    \* the frames of the recursion followed call by call, the last
            \* one running: <<>> when no such recursion is under way
  pass,     \* the last pass of the loop made by a frame of stack: the row,
            \* pp and N it found, the calls it listed, the row and pp it left
  cnt_,     \* cnt_ of the build with the precalculation: of a row, its count
  ptr_,     \* ptr_ of that build: of a row, the index into conts_ it points to
  conts_,   \* conts_ of that build, entry i of the array at index i + 1
  live,     \* the objects of one instantiation constructed and not destroyed
  tlptr,    \* of every thread, the block its threadprivate mult_tl_ points to
  heap      \* of every block given out by new, "allocated" or "freed"

ompvars == <<pc, mult_tl_, pool, run>>

recvars == <<stack, pass>>

prevars == <<cnt_, ptr_, conts_>>

heapvars == <<live, tlptr, heap>>

vars ==
  <<kind, m_, xyz_, mult_, call, ret, status, printed, pc, mult_tl_, pool, run,
    stack, pass, cnt_, ptr_, conts_, live, tlptr, heap>>

\* ------------------------------------------------------------------ bounds

\* largest angular momentum l passed to generateM (table of 2l+1 entries)
MaxL == 1

\* largest HO level n passed to generateXYZ (table of (n+1)(n+2)/2 entries)
MaxN == 1

\* #pragma omp task if (N > 8): a call is deferred only above this N
TaskThreshold == 8

\* number of threads of the team
NumWorkers == 2

\* largest number of ones of a row enumerated by the team
MaxOnes == 2

\* largest l and n of the tables on which the recursion is followed call by
\* call (tables of 11 and of 10 entries)
MaxDeepL == 5
MaxDeepN == 3

\* std::array<uint16_t, 5>: the groups of a row (fours, threes, twos, ones,
\* zeros)
Groups == 5

\* A value of the unsigned 32-bit types (the multiplicity type U, the U(3)
\* label type T) is modelled by the two's-complement reading of its 32 bits:
\* 2^32 - k is the integer -k.  Addition and subtraction modulo 2^32 are then
\* the integer operations, as long as the results stay within 31 bits, which
\* they do for every shell the bounds admit.

\* ----------------------------------------------------------------- helpers

\* n4 + n3 + n2 + n1 + n0 of a Gelfand row
RowSum(gpr) == gpr[1] + gpr[2] + gpr[3] + gpr[4] + gpr[5]

\* the empty std::unordered_map
EmptyMap == [w \in {} |-> 0]

\* mult[w] += c on a std::unordered_map: operator[] inserts 0 for a new key
MapAdd(M, w, c) ==
  IF w \in DOMAIN M THEN [M EXCEPT ![w] = @ + c]
  ELSE (w :> c) @@ M

\* for (temp : B) A[temp.first] += temp.second
MapMerge(A, B) ==
  [w \in DOMAIN B \ DOMAIN A |-> B[w]]
  @@ [w \in DOMAIN A |-> IF w \in DOMAIN B THEN A[w] + B[w] ELSE A[w]]

\* ------------------------------------------------------- UNtoSO3: generateM

\* a vector that generateM leaves as it finds it
C14_NoVecClear(v) == v

\* clear() of a std::vector
VecClear(v) == <<>>

\* for (int m = -l; m <= l; m++) m_.push_back(m), from m on
RECURSIVE MLoop(_, _, _)
MLoop(v, l, m) == IF m > l THEN v ELSE MLoop(Append(v, m), l, m + 1)

\* generateM(l) on an object whose table is v: the new table
generateM(v, l) == MLoop(VecClear(v), l, -l)

\* m_[N] of the C++ vector (0-based)
MAt(m, N) == m[N + 1]

\* ------------------------------------------- UNtoSO3: generateSO3WeightsRec
\* A call increments entries of one map (mult_, or the map of the thread
\* that runs it); increments commute, so a call is modelled by the map of the
\* increments it makes, and the caller merges it into the map written so far.
\* The state of one loop iteration is [gpr, pp, N, out, tasks, omp, trace]:
\* the row, the partial weight and N (all three mutated in place by TCE), the
\* increments made so far, the tasks created by this call, and whether the
\* build is the one with OpenMP enabled.  With trace set, the calls of a pass
\* are listed in tasks in the order the pass makes them, for a specification
\* that follows the recursion one call at a time.

RECURSIVE generateSO3WeightsRec(_, _, _)

\* the recursive calls of a block, made in order: their increments added to M
RECURSIVE SO3Calls(_, _, _)
SO3Calls(m, calls, M) ==
  IF calls = <<>> THEN M
  ELSE SO3Calls(m, Tail(calls),
                MapMerge(M, generateSO3WeightsRec(m, Head(calls)[1], Head(calls)[2])))

\* a task that reads the row of its parent when it runs, after the parent
\* has dropped a lowest label in place, instead of the row at its creation
C19_SpawnShared(m, s, calls) ==
  IF s.trace \/ (s.omp /\ s.N > TaskThreshold)
  THEN [s EXCEPT !.tasks = @ \o
          [i \in 1..Len(calls) |->
             <<[calls[i][1] EXCEPT ![5] = IF @ > 0 THEN @ - 1 ELSE @],
               calls[i][2]>>]]
  ELSE [s EXCEPT !.out = SO3Calls(m, calls, @)]

\* A recursive call of the loop body. With OpenMP it stands under
\* #pragma omp task if (N > 8) firstprivate(gpr, pp): for N > 8 a task is
\* created, its arguments computed from the row and pp as they are now; else
\* the call is made at once (its row has N <= 8 labels, so nothing below it
\* is deferred).
SO3Spawn(m, s, calls) ==
  IF s.trace \/ (s.omp /\ s.N > TaskThreshold)
  THEN [s EXCEPT !.tasks = @ \o calls]
  ELSE [s EXCEPT !.out = SO3Calls(m, calls, @)]

\* if (n4 > 0) { ... }
SO3Block4(m, s) ==
  LET n4 == s.gpr[1]  n3 == s.gpr[2]  n2 == s.gpr[3]
      n1 == s.gpr[4]  n0 == s.gpr[5]  pp == s.pp  q == MAt(m, s.N)
  IN IF n4 > 0
     THEN IF (n3 > 0) \/ (n2 > 0) \/ (n1 > 0) \/ (n0 > 0)
          THEN SO3Spawn(m, s,
                   <<  <<  <<n4 - 1, n3, n2, n1, n0>>, pp + 4 * q >>  >>
                   \o (IF n2 > 0
                       THEN << << <<n4 - 1, n3 + 1, n2 - 1, n1, n0>>, pp + 3 * q >> >>
                            \o (IF n0 > 0
                                THEN << << <<n4 - 1, n3 + 1, n2 - 1, n1 + 1, n0 - 1>>, pp + 2 * q >> >>
                                ELSE <<>>)
                       ELSE <<>>)
                   \o (IF n1 > 0
                       THEN << << <<n4 - 1, n3 + 1, n2, n1 - 1, n0>>, pp + 2 * q >>,
                               << <<n4 - 1, n3, n2 + 1, n1 - 1, n0>>, pp + 3 * q >> >>
                       ELSE <<>>)
                   \o (IF n0 > 0
                       THEN << << <<n4 - 1, n3 + 1, n2, n1, n0 - 1>>, pp + q >>,
                               << <<n4 - 1, n3, n2 + 1, n1, n0 - 1>>, pp + 2 * q >>,
                               << <<n4 - 1, n3, n2, n1 + 1, n0 - 1>>, pp + 3 * q >> >>
                       ELSE <<>>))
          ELSE [s EXCEPT !.gpr = <<n4 - 1, n3, n2, n1, n0>>, !.pp = pp + 4 * q]
     ELSE s

\* the block of the threes with a drop in place that adds 2 m_[N] to pp
C17_Block3DropAsTwo(m, s) ==
  IF s.gpr[2] > 0 /\ s.gpr[3] + s.gpr[4] + s.gpr[5] = 0
  THEN [s EXCEPT !.gpr = <<s.gpr[1], s.gpr[2] - 1, s.gpr[3], s.gpr[4], s.gpr[5]>>,
                 !.pp = s.pp + 2 * MAt(m, s.N)]
  ELSE IF s.gpr[2] > 0
       THEN SO3Spawn(m, s,
              << << <<s.gpr[1], s.gpr[2] - 1, s.gpr[3], s.gpr[4], s.gpr[5]>>,
                    s.pp + 3 * MAt(m, s.N) >> >>
              \o (IF s.gpr[4] > 0
                  THEN << << <<s.gpr[1], s.gpr[2] - 1, s.gpr[3] + 1, s.gpr[4] - 1,
                              s.gpr[5]>>, s.pp + 2 * MAt(m, s.N) >> >>
                  ELSE <<>>)
              \o (IF s.gpr[5] > 0
                  THEN << << <<s.gpr[1], s.gpr[2] - 1, s.gpr[3] + 1, s.gpr[4],
                              s.gpr[5] - 1>>, s.pp + MAt(m, s.N) >>,
                          << <<s.gpr[1], s.gpr[2] - 1, s.gpr[3], s.gpr[4] + 1,
                              s.gpr[5] - 1>>, s.pp + 2 * MAt(m, s.N) >> >>
                  ELSE <<>>))
       ELSE s

\* if (n3 > 0) { ... }
SO3Block3(m, s) ==
  LET n4 == s.gpr[1]  n3 == s.gpr[2]  n2 == s.gpr[3]
      n1 == s.gpr[4]  n0 == s.gpr[5]  pp == s.pp  q == MAt(m, s.N)
  IN IF n3 > 0
     THEN IF (n2 > 0) \/ (n1 > 0) \/ (n0 > 0)
          THEN SO3Spawn(m, s,
                   <<  << <<n4, n3 - 1, n2, n1, n0>>, pp + 3 * q >>  >>
                   \o (IF n1 > 0
                       THEN << << <<n4, n3 - 1, n2 + 1, n1 - 1, n0>>, pp + 2 * q >> >>
                       ELSE <<>>)
                   \o (IF n0 > 0
                       THEN << << <<n4, n3 - 1, n2 + 1, n1, n0 - 1>>, pp + q >>,
                               << <<n4, n3 - 1, n2, n1 + 1, n0 - 1>>, pp + 2 * q >> >>
                       ELSE <<>>))
          ELSE [s EXCEPT !.gpr = <<n4, n3 - 1, n2, n1, n0>>, !.pp = pp + 3 * q]
     ELSE s

\* the block of the twos without its second call
C15_Block2OneCall(m, s) ==
  IF s.gpr[3] > 0
  THEN IF (s.gpr[4] > 0) \/ (s.gpr[5] > 0)
       THEN SO3Spawn(m, s, << << <<s.gpr[1], s.gpr[2], s.gpr[3] - 1, s.gpr[4],
                                   s.gpr[5]>>, s.pp + 2 * MAt(m, s.N) >> >>)
       ELSE [s EXCEPT !.gpr = <<s.gpr[1], s.gpr[2], s.gpr[3] - 1, s.gpr[4],
                                s.gpr[5]>>,
                      !.pp = s.pp + 2 * MAt(m, s.N)]
  ELSE s

\* if (n2 > 0) { ... }
SO3Block2(m, s) ==
  LET n4 == s.gpr[1]  n3 == s.gpr[2]  n2 == s.gpr[3]
      n1 == s.gpr[4]  n0 == s.gpr[5]  pp == s.pp  q == MAt(m, s.N)
  IN IF n2 > 0
     THEN IF (n1 > 0) \/ (n0 > 0)
          THEN SO3Spawn(m, s,
                   <<  << <<n4, n3, n2 - 1, n1, n0>>, pp + 2 * q >>  >>
                   \o (IF n0 > 0
                       THEN << << <<n4, n3, n2 - 1, n1 + 1, n0 - 1>>, pp + q >> >>
                       ELSE <<>>))
          ELSE [s EXCEPT !.gpr = <<n4, n3, n2 - 1, n1, n0>>, !.pp = pp + 2 * q]
     ELSE s

\* the block of the ones without its branch
C3_Block1NoBranch(m, s) ==
  IF s.gpr[4] > 0 /\ s.gpr[5] = 0
  THEN [s EXCEPT !.gpr = <<s.gpr[1], s.gpr[2], s.gpr[3], s.gpr[4] - 1, s.gpr[5]>>,
                 !.pp = s.pp + MAt(m, s.N)]
  ELSE s

\* the block of the ones with a drop that adds nothing to pp
C11_Block1DropUnweighted(m, s) ==
  IF s.gpr[4] > 0 /\ s.gpr[5] = 0
  THEN [s EXCEPT !.gpr = <<s.gpr[1], s.gpr[2], s.gpr[3], s.gpr[4] - 1, s.gpr[5]>>]
  ELSE IF s.gpr[4] > 0
       THEN SO3Spawn(m, s, << << <<s.gpr[1], s.gpr[2], s.gpr[3], s.gpr[4] - 1,
                                   s.gpr[5]>>, s.pp + MAt(m, s.N) >> >>)
       ELSE s

\* if (n1 > 0) if (n0 > 0) ... else { ... }
SO3Block1(m, s) ==
  LET n4 == s.gpr[1]  n3 == s.gpr[2]  n2 == s.gpr[3]
      n1 == s.gpr[4]  n0 == s.gpr[5]  pp == s.pp  q == MAt(m, s.N)
  IN IF n1 > 0
     THEN IF n0 > 0
          THEN SO3Spawn(m, s,
                   <<  << <<n4, n3, n2, n1 - 1, n0>>, pp + q >>  >>)
          ELSE [s EXCEPT !.gpr = <<n4, n3, n2, n1 - 1, n0>>, !.pp = pp + q]
     ELSE s

\* the last block dropping a zero and, when no zero is left, a one as well
C16_Block0DropsTwice(m, s) ==
  IF s.gpr[5] > 1
  THEN [s EXCEPT !.gpr = <<s.gpr[1], s.gpr[2], s.gpr[3], s.gpr[4], s.gpr[5] - 1>>]
  ELSE IF s.gpr[5] = 1 /\ s.gpr[4] > 0
       THEN [s EXCEPT !.gpr = <<s.gpr[1], s.gpr[2], s.gpr[3], s.gpr[4] - 1, 0>>]
       ELSE IF s.gpr[5] = 1
            THEN [s EXCEPT !.gpr = <<s.gpr[1], s.gpr[2], s.gpr[3], s.gpr[4], 0>>]
            ELSE s

\* if (n0 > 0) { n0--; }
SO3Block0(m, s) ==
  IF s.gpr[5] > 0
  THEN [s EXCEPT !.gpr = <<s.gpr[1], s.gpr[2], s.gpr[3], s.gpr[4], s.gpr[5] - 1>>]
  ELSE s

\* N--
SO3DecN(s) == [s EXCEPT !.N = @ - 1]

\* a pass that, for a row of ones and zeros with both present, goes on in
\* place with a one dropped and calls itself for the row with a zero dropped
C20_BodySwapped(m, s) ==
  IF s.gpr[1] + s.gpr[2] + s.gpr[3] = 0 /\ s.gpr[4] > 0 /\ s.gpr[5] > 0
  THEN [s EXCEPT !.gpr = <<0, 0, 0, s.gpr[4] - 1, s.gpr[5]>>,
                 !.pp = s.pp + MAt(m, s.N),
                 !.N = s.N - 1,
                 !.tasks = << << <<0, 0, 0, s.gpr[4], s.gpr[5] - 1>>, s.pp >> >>]
  ELSE SO3DecN(SO3Block0(m, SO3Block1(m, SO3Block2(m, SO3Block3(m, SO3Block4(m, s))))))

\* one pass through the body of while (N > 0)
SO3Body(m, s) ==
  SO3DecN(SO3Block0(m, SO3Block1(m, SO3Block2(m, SO3Block3(m, SO3Block4(m, s))))))

\* the base case entering the weight one too high
C7_EmitShifted(m, s) ==
  LET temp == 4 * s.gpr[1] + 3 * s.gpr[2] + 2 * s.gpr[3] + s.gpr[4]
  IN MapAdd(s.out, s.pp + temp * MAt(m, 0) + 1, 1)

\* the base case: pp += (4 n4 + 3 n3 + 2 n2 + n1) * m_[0]; mult_[pp] += 1
SO3Emit(m, s) ==
  LET temp == 4 * s.gpr[1] + 3 * s.gpr[2] + 2 * s.gpr[3] + s.gpr[4]
  IN MapAdd(s.out, s.pp + temp * MAt(m, 0), 1)

\* while (N > 0) { body } followed by the base case
RECURSIVE SO3Loop(_, _)
SO3Loop(m, s) ==
  IF s.N > 0 THEN SO3Loop(m, SO3Body(m, s))
  ELSE SO3Emit(m, s)

\* generateSO3WeightsRec(gpr, pp) on the table m: the increments it makes
generateSO3WeightsRec(m, gpr, pp) ==
  SO3Loop(m, [gpr |-> gpr, pp |-> pp, N |-> RowSum(gpr) - 1, out |-> EmptyMap,
              tasks |-> <<>>, omp |-> FALSE, trace |-> FALSE])

\* ---- UNTOSO3_DISABLE_TCE: every drop a recursive call
\* The blocks of the build without tail call elimination: where a lower
\* group has labels the text is that of the build with it; where none has,
\* the drop is a call and the row stays as it is.

SO3Block4NoTCE(m, s) ==
  IF s.gpr[1] > 0 /\ s.gpr[2] + s.gpr[3] + s.gpr[4] + s.gpr[5] = 0
  THEN SO3Spawn(m, s, << << <<s.gpr[1] - 1, s.gpr[2], s.gpr[3], s.gpr[4], s.gpr[5]>>,
                            s.pp + 4 * MAt(m, s.N) >> >>)
  ELSE SO3Block4(m, s)

SO3Block3NoTCE(m, s) ==
  IF s.gpr[2] > 0 /\ s.gpr[3] + s.gpr[4] + s.gpr[5] = 0
  THEN SO3Spawn(m, s, << << <<s.gpr[1], s.gpr[2] - 1, s.gpr[3], s.gpr[4], s.gpr[5]>>,
                            s.pp + 3 * MAt(m, s.N) >> >>)
  ELSE SO3Block3(m, s)

SO3Block2NoTCE(m, s) ==
  IF s.gpr[3] > 0 /\ s.gpr[4] + s.gpr[5] = 0
  THEN SO3Spawn(m, s, << << <<s.gpr[1], s.gpr[2], s.gpr[3] - 1, s.gpr[4], s.gpr[5]>>,
                            s.pp + 2 * MAt(m, s.N) >> >>)
  ELSE SO3Block2(m, s)

SO3Block1NoTCE(m, s) ==
  IF s.gpr[4] > 0 /\ s.gpr[5] = 0
  THEN SO3Spawn(m, s, << << <<s.gpr[1], s.gpr[2], s.gpr[3], s.gpr[4] - 1, s.gpr[5]>>,
                            s.pp + MAt(m, s.N) >> >>)
  ELSE SO3Block1(m, s)

\* if (n0 > 0) the call with n0 - 1 and pp
SO3Block0NoTCE(m, s) ==
  IF s.gpr[5] > 0
  THEN SO3Spawn(m, s, << << <<s.gpr[1], s.gpr[2], s.gpr[3], s.gpr[4], s.gpr[5] - 1>>,
                            s.pp >> >>)
  ELSE s

\* the body of if (N > 0): no N--
SO3BodyNoTCE(m, s) ==
  SO3Block0NoTCE(m, SO3Block1NoTCE(m, SO3Block2NoTCE(m,
     SO3Block3NoTCE(m, SO3Block4NoTCE(m, s)))))

RECURSIVE SO3RecNoTCE(_, _, _)

\* the calls of the body, made in order: their increments added to M
RECURSIVE SO3CallsNoTCE(_, _, _)
SO3CallsNoTCE(m, calls, M) ==
  IF calls = <<>> THEN M
  ELSE SO3CallsNoTCE(m, Tail(calls),
                  MapMerge(M, SO3RecNoTCE(m, Head(calls)[1], Head(calls)[2])))

\* generateSO3WeightsRec(gpr, pp) of that build: if (N > 0) { body } else
\* { base case }
SO3RecNoTCE(m, gpr, pp) ==
  LET s == [gpr |-> gpr, pp |-> pp, N |-> RowSum(gpr) - 1, out |-> EmptyMap,
            tasks |-> <<>>, omp |-> FALSE, trace |-> TRUE]
  IN IF s.N > 0 THEN SO3CallsNoTCE(m, SO3BodyNoTCE(m, s).tasks, EmptyMap)
     ELSE SO3Emit(m, s)

\* ------------------------------------------------------ UNtoU3: generateXYZ

\* the inner loop for (nx = k; nx >= 0; nx--): the entries <<nz, nx, ny>>
XYZInner(n, k) ==
  [j \in 1..(k + 1) |-> <<n - k, k - (j - 1), n - (n - k) - (k - (j - 1))>>]

\* the outer loop for (k = 0; k <= n; k++), from k on
RECURSIVE XYZOuter(_, _)
XYZOuter(n, k) ==
  IF k > n THEN <<>> ELSE XYZInner(n, k) \o XYZOuter(n, k + 1)

\* the three vectors left as generateXYZ finds them
C13_NoXYZClear(xyz) == xyz

\* for (auto & v : xyz_) v.clear(): the three vectors have one length, so
\* they are modelled by one sequence of triples
XYZClear(xyz) == VecClear(xyz)

\* generateXYZ(n) on an object whose table is xyz: the new table, entry i
\* being <<xyz_[NZ][i], xyz_[NX][i], xyz_[NY][i]>>
generateXYZ(xyz, n) == XYZClear(xyz) \o XYZOuter(n, 0)

\* <<xyz_[0][N], xyz_[1][N], xyz_[2][N]>> of the C++ vectors (0-based)
XYZAt(xyz, N) == xyz[N + 1]

\* component-wise sum and multiple of U3Weight values
VAdd(a, b) == <<a[1] + b[1], a[2] + b[2], a[3] + b[3]>>

VScale(k, a) == <<k * a[1], k * a[2], k * a[3]>>

\* --------------------------------------------- UNtoU3: generateU3WeightsRec
\* A call increments entries of one map (mult_, or the map of the thread
\* that runs it); increments commute, so a call is modelled by the map of the
\* increments it makes, and the caller merges it into the map written so far.
\* The state of one loop iteration is [gpr, pp, N, out, tasks, omp, trace]:
\* the row, the partial weight and N (all three mutated in place by TCE), the
\* increments made so far, the tasks created by this call, and whether the
\* build is the one with OpenMP enabled.  With trace set, the calls of a pass
\* are listed in tasks in the order the pass makes them, for a specification
\* that follows the recursion one call at a time.

RECURSIVE generateU3WeightsRec(_, _, _)

\* the recursive calls of a block, made in order: their increments added to M
RECURSIVE U3Calls(_, _, _)
U3Calls(xyz, calls, M) ==
  IF calls = <<>> THEN M
  ELSE U3Calls(xyz, Tail(calls),
               MapMerge(M, generateU3WeightsRec(xyz, Head(calls)[1], Head(calls)[2])))

\* a recursive call of the loop body, as SO3Spawn
U3Spawn(xyz, s, calls) ==
  IF s.trace \/ (s.omp /\ s.N > TaskThreshold)
  THEN [s EXCEPT !.tasks = @ \o calls]
  ELSE [s EXCEPT !.out = U3Calls(xyz, calls, @)]

\* if (n4 > 0) { ... }
U3Block4(xyz, s) ==
  LET n4 == s.gpr[1]  n3 == s.gpr[2]  n2 == s.gpr[3]
      n1 == s.gpr[4]  n0 == s.gpr[5]  pp == s.pp  q == XYZAt(xyz, s.N)
  IN IF n4 > 0
     THEN IF (n3 > 0) \/ (n2 > 0) \/ (n1 > 0) \/ (n0 > 0)
          THEN U3Spawn(xyz, s,
                   <<  <<  <<n4 - 1, n3, n2, n1, n0>>, VAdd(pp, VScale(4, q)) >>  >>
                   \o (IF n2 > 0
                       THEN << << <<n4 - 1, n3 + 1, n2 - 1, n1, n0>>, VAdd(pp, VScale(3, q)) >> >>
                            \o (IF n0 > 0
                                THEN << << <<n4 - 1, n3 + 1, n2 - 1, n1 + 1, n0 - 1>>, VAdd(pp, VScale(2, q)) >> >>
                                ELSE <<>>)
                       ELSE <<>>)
                   \o (IF n1 > 0
                       THEN << << <<n4 - 1, n3 + 1, n2, n1 - 1, n0>>, VAdd(pp, VScale(2, q)) >>,
                               << <<n4 - 1, n3, n2 + 1, n1 - 1, n0>>, VAdd(pp, VScale(3, q)) >> >>
                       ELSE <<>>)
                   \o (IF n0 > 0
                       THEN << << <<n4 - 1, n3 + 1, n2, n1, n0 - 1>>, VAdd(pp, q) >>,
                               << <<n4 - 1, n3, n2 + 1, n1, n0 - 1>>, VAdd(pp, VScale(2, q)) >>,
                               << <<n4 - 1, n3, n2, n1 + 1, n0 - 1>>, VAdd(pp, VScale(3, q)) >> >>
                       ELSE <<>>))
          ELSE [s EXCEPT !.gpr = <<n4 - 1, n3, n2, n1, n0>>, !.pp = VAdd(pp, VScale(4, q))]
     ELSE s

\* if (n3 > 0) { ... }
U3Block3(xyz, s) ==
  LET n4 == s.gpr[1]  n3 == s.gpr[2]  n2 == s.gpr[3]
      n1 == s.gpr[4]  n0 == s.gpr[5]  pp == s.pp  q == XYZAt(xyz, s.N)
  IN IF n3 > 0
     THEN IF (n2 > 0) \/ (n1 > 0) \/ (n0 > 0)
          THEN U3Spawn(xyz, s,
                   <<  << <<n4, n3 - 1, n2, n1, n0>>, VAdd(pp, VScale(3, q)) >>  >>
                   \o (IF n1 > 0
                       THEN << << <<n4, n3 - 1, n2 + 1, n1 - 1, n0>>, VAdd(pp, VScale(2, q)) >> >>
                       ELSE <<>>)
                   \o (IF n0 > 0
                       THEN << << <<n4, n3 - 1, n2 + 1, n1, n0 - 1>>, VAdd(pp, q) >>,
                               << <<n4, n3 - 1, n2, n1 + 1, n0 - 1>>, VAdd(pp, VScale(2, q)) >> >>
                       ELSE <<>>))
          ELSE [s EXCEPT !.gpr = <<n4, n3 - 1, n2, n1, n0>>, !.pp = VAdd(pp, VScale(3, q))]
     ELSE s

\* if (n2 > 0) { ... }
U3Block2(xyz, s) ==
  LET n4 == s.gpr[1]  n3 == s.gpr[2]  n2 == s.gpr[3]
      n1 == s.gpr[4]  n0 == s.gpr[5]  pp == s.pp  q == XYZAt(xyz, s.N)
  IN IF n2 > 0
     THEN IF (n1 > 0) \/ (n0 > 0)
          THEN U3Spawn(xyz, s,
                   <<  << <<n4, n3, n2 - 1, n1, n0>>, VAdd(pp, VScale(2, q)) >>  >>
                   \o (IF n0 > 0
                       THEN << << <<n4, n3, n2 - 1, n1 + 1, n0 - 1>>, VAdd(pp, q) >> >>
                       ELSE <<>>))
          ELSE [s EXCEPT !.gpr = <<n4, n3, n2 - 1, n1, n0>>, !.pp = VAdd(pp, VScale(2, q))]
     ELSE s

\* if (n1 > 0) if (n0 > 0) ... else { ... }
U3Block1(xyz, s) ==
  LET n4 == s.gpr[1]  n3 == s.gpr[2]  n2 == s.gpr[3]
      n1 == s.gpr[4]  n0 == s.gpr[5]  pp == s.pp  q == XYZAt(xyz, s.N)
  IN IF n1 > 0
     THEN IF n0 > 0
          THEN U3Spawn(xyz, s,
                   <<  << <<n4, n3, n2, n1 - 1, n0>>, VAdd(pp, q) >>  >>)
          ELSE [s EXCEPT !.gpr = <<n4, n3, n2, n1 - 1, n0>>, !.pp = VAdd(pp, q)]
     ELSE s

\* if (n0 > 0) { n0--; }
\* a drop of a zero that adds the quanta of entry N to pp
C22_Block0Weighted(xyz, s) ==
  IF s.gpr[5] > 0
  THEN [s EXCEPT !.gpr = <<s.gpr[1], s.gpr[2], s.gpr[3], s.gpr[4], s.gpr[5] - 1>>,
                 !.pp = VAdd(s.pp, XYZAt(xyz, s.N))]
  ELSE s

U3Block0(xyz, s) ==
  IF s.gpr[5] > 0
  THEN [s EXCEPT !.gpr = <<s.gpr[1], s.gpr[2], s.gpr[3], s.gpr[4], s.gpr[5] - 1>>]
  ELSE s

\* N--
U3DecN(s) == [s EXCEPT !.N = @ - 1]

\* one pass through the body of while (N > 0)
U3Body(xyz, s) ==
  U3DecN(U3Block0(xyz, U3Block1(xyz, U3Block2(xyz, U3Block3(xyz, U3Block4(xyz, s))))))

\* the base case entering pp as it is, nothing added for the last label
C12_EmitPartial(xyz, s) == MapAdd(s.out, s.pp, 1)

\* the base case: pp[i] += (4 n4 + 3 n3 + 2 n2 + n1) * xyz_[i][0]; mult_[pp] += 1
U3Emit(xyz, s) ==
  LET temp == 4 * s.gpr[1] + 3 * s.gpr[2] + 2 * s.gpr[3] + s.gpr[4]
  IN MapAdd(s.out, VAdd(s.pp, VScale(temp, XYZAt(xyz, 0))), 1)

\* while (N > 0) { body } followed by the base case
RECURSIVE U3Loop(_, _)
U3Loop(xyz, s) ==
  IF s.N > 0 THEN U3Loop(xyz, U3Body(xyz, s))
  ELSE U3Emit(xyz, s)

\* generateU3WeightsRec(gpr, pp) on the table xyz: the increments it makes
generateU3WeightsRec(xyz, gpr, pp) ==
  U3Loop(xyz, [gpr |-> gpr, pp |-> pp, N |-> RowSum(gpr) - 1, out |-> EmptyMap,
               tasks |-> <<>>, omp |-> FALSE, trace |-> FALSE])

\* ---- UNTOU3_DISABLE_TCE: every drop a recursive call
\* The blocks of the build without tail call elimination: where a lower
\* group has labels the text is that of the build with it; where none has,
\* the drop is a call and the row stays as it is.

U3Block4NoTCE(xyz, s) ==
  IF s.gpr[1] > 0 /\ s.gpr[2] + s.gpr[3] + s.gpr[4] + s.gpr[5] = 0
  THEN U3Spawn(xyz, s, << << <<s.gpr[1] - 1, s.gpr[2], s.gpr[3], s.gpr[4], s.gpr[5]>>,
                            VAdd(s.pp, VScale(4, XYZAt(xyz, s.N))) >> >>)
  ELSE U3Block4(xyz, s)

U3Block3NoTCE(xyz, s) ==
  IF s.gpr[2] > 0 /\ s.gpr[3] + s.gpr[4] + s.gpr[5] = 0
  THEN U3Spawn(xyz, s, << << <<s.gpr[1], s.gpr[2] - 1, s.gpr[3], s.gpr[4], s.gpr[5]>>,
                            VAdd(s.pp, VScale(3, XYZAt(xyz, s.N))) >> >>)
  ELSE U3Block3(xyz, s)

U3Block2NoTCE(xyz, s) ==
  IF s.gpr[3] > 0 /\ s.gpr[4] + s.gpr[5] = 0
  THEN U3Spawn(xyz, s, << << <<s.gpr[1], s.gpr[2], s.gpr[3] - 1, s.gpr[4], s.gpr[5]>>,
                            VAdd(s.pp, VScale(2, XYZAt(xyz, s.N))) >> >>)
  ELSE U3Block2(xyz, s)

U3Block1NoTCE(xyz, s) ==
  IF s.gpr[4] > 0 /\ s.gpr[5] = 0
  THEN U3Spawn(xyz, s, << << <<s.gpr[1], s.gpr[2], s.gpr[3], s.gpr[4] - 1, s.gpr[5]>>,
                            VAdd(s.pp, XYZAt(xyz, s.N)) >> >>)
  ELSE U3Block1(xyz, s)

\* if (n0 > 0) the call with n0 - 1 and pp
U3Block0NoTCE(xyz, s) ==
  IF s.gpr[5] > 0
  THEN U3Spawn(xyz, s, << << <<s.gpr[1], s.gpr[2], s.gpr[3], s.gpr[4], s.gpr[5] - 1>>,
                            s.pp >> >>)
  ELSE s

\* the body of if (N > 0): no N--
U3BodyNoTCE(xyz, s) ==
  U3Block0NoTCE(xyz, U3Block1NoTCE(xyz, U3Block2NoTCE(xyz,
     U3Block3NoTCE(xyz, U3Block4NoTCE(xyz, s)))))

RECURSIVE U3RecNoTCE(_, _, _)

\* the calls of the body, made in order: their increments added to M
RECURSIVE U3CallsNoTCE(_, _, _)
U3CallsNoTCE(xyz, calls, M) ==
  IF calls = <<>> THEN M
  ELSE U3CallsNoTCE(xyz, Tail(calls),
                  MapMerge(M, U3RecNoTCE(xyz, Head(calls)[1], Head(calls)[2])))

\* generateU3WeightsRec(gpr, pp) of that build: if (N > 0) { body } else
\* { base case }
U3RecNoTCE(xyz, gpr, pp) ==
  LET s == [gpr |-> gpr, pp |-> pp, N |-> RowSum(gpr) - 1, out |-> EmptyMap,
            tasks |-> <<>>, omp |-> FALSE, trace |-> TRUE]
  IN IF s.N > 0 THEN U3CallsNoTCE(xyz, U3BodyNoTCE(xyz, s).tasks, EmptyMap)
     ELSE U3Emit(xyz, s)

\* ------------------------------------------------- the enumerations, tabulated

\* the rows <<n4, n3, n2, n1, n0>> with 1 <= n4 + n3 + n2 + n1 + n0 <= size
RowsUpTo(size) ==
  {gpr \in (0..size) \X (0..size) \X (0..size) \X (0..size) \X (0..size) :
     RowSum(gpr) >= 1 /\ RowSum(gpr) <= size}

\* the function f with every value computed (TLC evaluates it once)
Tabulate(f) == f @@ EmptyMap

\* the tables generateM can leave in m_
SO3Tables == {generateM(<<>>, l) : l \in 0..MaxL}

\* the tables generateXYZ can leave in xyz_
U3Tables == {generateXYZ(<<>>, n) : n \in 0..MaxN}

\* the sizes of the largest tables
SO3MaxSize == 2 * MaxL + 1
U3MaxSize == ((MaxN + 1) * (MaxN + 2)) \div 2

\* whether the recursion on gpr indexes the table past its end: the base case
\* reads entry 0, and a row with a label other than 0 reads entry N, one less
\* than its total, in its first pass through the loop
ReadsPastEnd(table, gpr) ==
  \/ Len(table) = 0
  \/ RowSum(gpr) > Len(table) /\ gpr[1] + gpr[2] + gpr[3] + gpr[4] > 0

\* generateSO3WeightsRec(gpr, 0) for every table and every row it can read
SO3Memo ==
  Tabulate([m \in SO3Tables |->
            Tabulate([gpr \in {r \in RowsUpTo(SO3MaxSize) : ~ReadsPastEnd(m, r)} |->
                        generateSO3WeightsRec(m, gpr, 0)])])

\* generateU3WeightsRec(gpr, {0, 0, 0}) for every table and every row it can read
U3Memo ==
  Tabulate([xyz \in U3Tables |->
            Tabulate([gpr \in {r \in RowsUpTo(U3MaxSize) : ~ReadsPastEnd(xyz, r)} |->
                        generateU3WeightsRec(xyz, gpr, <<0, 0, 0>>)])])

\* ------------------------------------- generateSO3Weights, generateU3Weights
\* The serial build: mult_.clear(), then the recursion writes to mult_.

\* no clear() at all
C8_NoClear(mult) == mult

\* the alternative to clear() the source keeps in a comment:
\* for (auto & e : mult_) e.second = 0
C9_ZeroInsteadOfClear(mult) == [w \in DOMAIN mult |-> 0]

\* mult_.clear()
MapClear(mult) == EmptyMap

\* generateSO3Weights checking the total of the row before it touches mult_
C5_ValidatingSO3Weights(m, mult, gpr) ==
  IF RowSum(gpr) # Len(m) THEN mult ELSE MapMerge(EmptyMap, SO3Memo[m][gpr])

\* generateSO3Weights(gpr) on an object with table m and map mult: the new map
generateSO3Weights(m, mult, gpr) == MapMerge(MapClear(mult), SO3Memo[m][gpr])

\* generateU3Weights(gpr) on an object with table xyz and map mult: the new map
generateU3Weights(xyz, mult, gpr) == MapMerge(MapClear(mult), U3Memo[xyz][gpr])

\* ------------------------------------------------- getLevelDimensionality

\* a lookup taking the multiplicity of an absent key as 1
C6_FindOrOne(mult, w) == IF w \in DOMAIN mult THEN mult[w] ELSE 1

\* (it == end()) ? 0 : it->second, for it = mult_.find(w)
FindOrZero(mult, w) == IF w \in DOMAIN mult THEN mult[w] ELSE 0

\* getLevelDimensionality without the subtraction of the multiplicity of l + 1
C1_LevelDimNoSubtraction(mult, l) == IF l < 0 THEN 0 ELSE mult[l]

\* UNtoSO3::getLevelDimensionality(l) when the assertion holds: the value returned
SO3LevelDim(mult, l) ==
  IF l < 0 THEN 0
  ELSE mult[l] - FindOrZero(mult, l + 1)

\* UNtoSO3::getLevelDimensionality(l): whether assert(so3_mult != mult_.end()) fails
SO3LevelAssertFails(mult, l) == ~(l < 0) /\ l \notin DOMAIN mult

\* getLevelDimensionality without its last term
C2_LevelDimFiveTerms(mult, labels) ==
  LET f1 == labels[1]  f2 == labels[2]  f3 == labels[3]
  IN IF (f1 < f2) \/ (f2 < f3) THEN 0
     ELSE mult[<<f1, f2, f3>>]
          + FindOrZero(mult, <<f1 + 1, f2 + 1, f3 - 2>>)
          + FindOrZero(mult, <<f1 + 2, f2 - 1, f3 - 1>>)
          - FindOrZero(mult, <<f1 + 2, f2, f3 - 2>>)
          - FindOrZero(mult, <<f1 + 1, f2 - 1, f3>>)

\* UNtoU3::getLevelDimensionality(labels) when the assertion holds
U3LevelDim(mult, labels) ==
  LET f1 == labels[1]  f2 == labels[2]  f3 == labels[3]
  IN IF (f1 < f2) \/ (f2 < f3) THEN 0
     ELSE mult[<<f1, f2, f3>>]
          + FindOrZero(mult, <<f1 + 1, f2 + 1, f3 - 2>>)
          + FindOrZero(mult, <<f1 + 2, f2 - 1, f3 - 1>>)
          - FindOrZero(mult, <<f1 + 2, f2, f3 - 2>>)
          - FindOrZero(mult, <<f1 + 1, f2 - 1, f3>>)
          - FindOrZero(mult, <<f1, f2 + 1, f3 - 1>>)

\* UNtoU3::getLevelDimensionality(labels): whether assert(u3_mult != mult_.end()) fails
U3LevelAssertFails(mult, labels) ==
  ~((labels[1] < labels[2]) \/ (labels[2] < labels[3])) /\ labels \notin DOMAIN mult

\* ------------------------------------------------ test_input_SO3.cpp: dim

RECURSIVE GCD(_, _)
GCD(a, b) == IF b = 0 THEN a ELSE GCD(b, a % b)

\* boost::rational *= {num, den}: the product in lowest terms
RatTimes(r, num, den) ==
  LET n == r[1] * num
      d == r[2] * den
      g == GCD(n, d)
  IN <<n \div g, d \div g>>

\* the loops of dim(irrep) from (l, k) on, result being the product so far
RECURSIVE DimLoop(_, _, _, _)
DimLoop(irrep, l, k, result) ==
  IF l > Len(irrep) THEN result
  ELSE IF k > l - 1 THEN DimLoop(irrep, l + 1, 1, result)
  ELSE DimLoop(irrep, l, k + 1,
               RatTimes(result, irrep[k] - irrep[l] + l - k, l - k))

\* dim(irrep): the numerator of the product (its denominator is asserted 1)
dim(irrep) == DimLoop(irrep, 2, 1, <<1, 1>>)[1]

\* the vector f of main: n4 fours, n3 threes, n2 twos, n1 ones, n0 zeros
RowLabels(gpr) ==
  [i \in 1..RowSum(gpr) |->
     IF i <= gpr[1] THEN 4
     ELSE IF i <= gpr[1] + gpr[2] THEN 3
     ELSE IF i <= gpr[1] + gpr[2] + gpr[3] THEN 2
     ELSE IF i <= gpr[1] + gpr[2] + gpr[3] + gpr[4] THEN 1
     ELSE 0]

\* ----------------------------------------------- test_input_SO3.cpp: main

\* the sum of the values of a function with a finite domain
RECURSIVE SumOver(_, _)
SumOver(f, S) ==
  IF S = {} THEN 0
  ELSE LET w == CHOOSE v \in S : TRUE
       IN f[w] + SumOver(f, S \ {w})

\* the sum of the values of f, taken group by group (group maps each key of
\* f to its group), which keeps the recursion shallow
MapTotal(f, group) ==
  LET groups == {group[w] : w \in DOMAIN f}
      subtotal == [g \in groups |-> SumOver(f, {w \in DOMAIN f : group[w] = g})]
  IN SumOver(subtotal, groups)

\* the totals over maps keyed by SO(3) weights and by U(3) weights
SO3Total(f) == MapTotal(f, [w \in DOMAIN f |-> w \div 8])
U3Total(f) == MapTotal(f, [w \in DOMAIN f |-> w[1]])

\* dim(l) of an SO(3) irrep
dimSO3(l) == 2 * l + 1

\* the loop of main over multMap(): the sum of D_l * dim(weight), D_l nonzero
DriverSum(mult) ==
  SO3Total(Tabulate([w \in DOMAIN mult |->
             IF SO3LevelDim(mult, w) # 0
             THEN SO3LevelDim(mult, w) * dimSO3(w) ELSE 0]))

\* operator<< of an unsigned long: its decimal digits
RECURSIVE Decimal(_)
Decimal(x) == IF x < 10 THEN <<x>> ELSE Append(Decimal(x \div 10), x % 10)

\* the inputs "l n4 n3 n2 n1 n0" the documentation gives for the U(21) irrep
\* [2,2,2,2,2,2,1,0,...,0]: the file header's, and the specification's
DocumentedInputs == { <<5, <<0, 0, 6, 1, 14>> >>, <<10, <<5, 0, 0, 6, 1>> >> }

\* the total the documentation gives for them: 2168999910
DocumentedTotal == <<2, 1, 6, 8, 9, 9, 9, 9, 1, 0>>

\* what the driver reads from std::cin: l, then the row
DriverInputs ==
  DocumentedInputs
  \cup {<<l, gpr>> : l \in 0..MaxL, gpr \in RowsUpTo(SO3MaxSize)}

\* ------------------------------------------------------ the state machine

\* the labels getLevelDimensionality is asked about
SO3Labels == (-1)..2
U3Labels ==
  { <<1, 0, 0>>, <<0, 1, 0>>, <<1, 1, 0>>, <<1, 1, 1>>, <<2, 1, 0>>, <<2, 2, 0>> }

\* what a read through the end() iterator may give (the assert compiled out)
Garbage == {0, 1}

Workers == 1..NumWorkers

\* after the constructor: the tables and maps empty, every thread with the
\* map the constructor allocated for it, no parallel region active
Constructed ==
  /\ m_ = <<>>
  /\ xyz_ = <<>>
  /\ mult_ = EmptyMap
  /\ call = [op |-> "constructor", arg |-> <<>>]
  /\ ret = 0
  /\ status = "ok"
  /\ printed = <<>>
  /\ pc = [w \in Workers |-> "outside"]
  /\ mult_tl_ = [w \in Workers |-> EmptyMap]
  /\ pool = EmptyMap
  /\ run = [w \in Workers |-> <<>>]
  /\ stack = <<>>
  /\ pass = <<>>

\* the build has no precalculation
NoPrecalc == cnt_ = EmptyMap /\ ptr_ = EmptyMap /\ conts_ = <<>>

\* the blocks the threads allocate are not followed
NoHeap == live = {} /\ tlptr = [w \in Workers |-> 0] /\ heap = <<>>

Init ==
  /\ kind \in {"UNtoSO3", "UNtoU3", "driver"}
  /\ Constructed
  /\ NoPrecalc /\ NoHeap

\* UNtoSO3::generateM(l)
GenerateM(l) ==
  /\ kind = "UNtoSO3" /\ status = "ok"
  /\ m_' = generateM(m_, l)
  /\ call' = [op |-> "generateM", arg |-> <<l>>, reseeded |-> m_ # <<>>]
  /\ UNCHANGED <<prevars, heapvars, recvars, kind, xyz_, mult_, ret, status, printed, pc, mult_tl_, pool, run>>

\* UNtoSO3::generateSO3Weights(gpr), the row having at least one label; after
\* mult_.clear() the recursion runs, or reads past the end of m_
GenerateSO3Weights(gpr) ==
  /\ kind = "UNtoSO3" /\ status = "ok"
  /\ call' = [op |-> "generateSO3Weights", arg |-> gpr,
              cleared |-> mult_ # EmptyMap]
  /\ IF ReadsPastEnd(m_, gpr)
     THEN mult_' = MapClear(mult_) /\ status' = "undefined"
     ELSE mult_' = generateSO3Weights(m_, mult_, gpr) /\ status' = status
  /\ UNCHANGED <<prevars, heapvars, recvars, kind, m_, xyz_, ret, printed, pc, mult_tl_, pool, run>>

\* UNtoSO3::getLevelDimensionality(l): the failed assert aborts, or, compiled
\* out, lets the function read through end()
SO3GetLevelDimensionality(l) ==
  /\ kind = "UNtoSO3" /\ status = "ok"
  /\ call' = [op |-> "getLevelDimensionality", arg |-> <<l>>]
  /\ IF SO3LevelAssertFails(mult_, l)
     THEN \/ status' = "assertion failed" /\ ret' = ret
          \/ status' = "undefined" /\ ret' \in Garbage
     ELSE status' = status /\ ret' = SO3LevelDim(mult_, l)
  /\ UNCHANGED <<prevars, heapvars, recvars, kind, m_, xyz_, mult_, printed, pc, mult_tl_, pool, run>>

\* UNtoU3::generateXYZ(n)
GenerateXYZ(n) ==
  /\ kind = "UNtoU3" /\ status = "ok"
  /\ xyz_' = generateXYZ(xyz_, n)
  /\ call' = [op |-> "generateXYZ", arg |-> <<n>>, reseeded |-> xyz_ # <<>>]
  /\ UNCHANGED <<prevars, heapvars, recvars, kind, m_, mult_, ret, status, printed, pc, mult_tl_, pool, run>>

\* UNtoU3::generateU3Weights(gpr), as GenerateSO3Weights
GenerateU3Weights(gpr) ==
  /\ kind = "UNtoU3" /\ status = "ok"
  /\ call' = [op |-> "generateU3Weights", arg |-> gpr,
              cleared |-> mult_ # EmptyMap]
  /\ IF ReadsPastEnd(xyz_, gpr)
     THEN mult_' = MapClear(mult_) /\ status' = "undefined"
     ELSE mult_' = generateU3Weights(xyz_, mult_, gpr) /\ status' = status
  /\ UNCHANGED <<prevars, heapvars, recvars, kind, m_, xyz_, ret, printed, pc, mult_tl_, pool, run>>

\* UNtoU3::getLevelDimensionality(labels)
U3GetLevelDimensionality(labels) ==
  /\ kind = "UNtoU3" /\ status = "ok"
  /\ call' = [op |-> "getLevelDimensionality", arg |-> labels]
  /\ IF U3LevelAssertFails(mult_, labels)
     THEN \/ status' = "assertion failed" /\ ret' = ret
          \/ status' = "undefined" /\ ret' \in Garbage
     ELSE status' = status /\ ret' = U3LevelDim(mult_, labels)
  /\ UNCHANGED <<prevars, heapvars, recvars, kind, m_, xyz_, mult_, printed, pc, mult_tl_, pool, run>>

\* main of the test driver, reading in
Main(in) ==
  /\ kind = "driver" /\ status = "ok" /\ call.op = "constructor"
  /\ call' = [op |-> "main", arg |-> in]
  /\ IF RowSum(in[2]) # 2 * in[1] + 1
     THEN /\ status' = "invalid_argument"
          /\ UNCHANGED <<m_, mult_, printed>>
     ELSE /\ status' = "exit"
          /\ m_' = generateM(m_, in[1])
          /\ mult_' = generateSO3Weights(generateM(m_, in[1]), mult_, in[2])
          /\ printed' =
               Decimal(DriverSum(generateSO3Weights(generateM(m_, in[1]), mult_, in[2])))
  /\ UNCHANGED <<prevars, heapvars, recvars, kind, xyz_, ret, pc, mult_tl_, pool, run>>

Next ==
  \/ \E l \in 0..MaxL : GenerateM(l)
  \/ \E gpr \in RowsUpTo(SO3MaxSize) : GenerateSO3Weights(gpr)
  \/ \E l \in SO3Labels : SO3GetLevelDimensionality(l)
  \/ \E n \in 0..MaxN : GenerateXYZ(n)
  \/ \E gpr \in RowsUpTo(U3MaxSize) : GenerateU3Weights(gpr)
  \/ \E labels \in U3Labels : U3GetLevelDimensionality(labels)
  \/ \E in \in DriverInputs : Main(in)

Spec == Init /\ [][Next]_vars

\* ------------------------------------------- the build with OpenMP enabled
\* generateSO3Weights and generateU3Weights with UNTOSO3_ENABLE_OPENMP and
\* UNTOU3_ENABLE_OPENMP: the calling thread clears mult_ and opens a parallel
\* region; every thread clears its own map; one thread runs the recursion
\* from the top row (omp single) while the others wait at the barrier that
\* ends the single construct, running the tasks created; after the barrier
\* every thread adds its map to mult_ in a critical section.  A thread runs
\* one call at a time: a pass of the loop that creates tasks is a step, and
\* the rest of the call, which writes to the map of the thread only, is one.

\* the smallest l and n whose tables let N exceed the threshold of the tasks
TaskL == (TaskThreshold \div 2) + 1
TaskN == CHOOSE n \in 0..TaskThreshold :
           /\ ((n + 1) * (n + 2)) \div 2 > TaskThreshold + 1
           /\ (n * (n + 1)) \div 2 <= TaskThreshold + 1

\* the rows of size labels the team enumerates: ones and zeros
TeamRows(size) ==
  {<<0, 0, 0, n1, size - n1>> : n1 \in {k \in 0..MaxOnes : k <= size}}

\* the table of quanta of the object, its size, and the weight 0
Table == IF kind = "UNtoSO3" THEN m_ ELSE xyz_
ZeroWeight == IF kind = "UNtoSO3" THEN 0 ELSE <<0, 0, 0>>

\* the entry of generateSO3WeightsRec / generateU3WeightsRec(gpr, pp)
TaskState(gpr, pp) ==
  [gpr |-> gpr, pp |-> pp, N |-> RowSum(gpr) - 1, out |-> EmptyMap,
   tasks |-> <<>>, omp |-> TRUE, trace |-> FALSE]

\* one pass of the loop, and the loop to its end with the base case, of the
\* class of the object
Body(s) == IF kind = "UNtoSO3" THEN SO3Body(m_, s) ELSE U3Body(xyz_, s)
Loop(s) == IF kind = "UNtoSO3" THEN SO3Loop(m_, s) ELSE U3Loop(xyz_, s)

\* the tasks of a sequence added to the pool
RECURSIVE PoolAdd(_, _)
PoolAdd(P, tasks) ==
  IF tasks = <<>> THEN P
  ELSE PoolAdd(MapAdd(P, Head(tasks), 1), Tail(tasks))

\* one task t taken from the pool
PoolTake(P, t) ==
  IF P[t] = 1 THEN [x \in DOMAIN P \ {t} |-> P[x]] ELSE [P EXCEPT ![t] = @ - 1]

\* a merge that assigns: mult_[temp.first] = temp.second
C4_MergeAssign(mult, tl) == tl @@ mult

\* mult_[temp.first] += temp.second for every temp of *mult_tl_
MergeCritical(mult, tl) == MapMerge(mult, tl)

AllAt(label) == \A w \in Workers : pc[w] = label

\* generateSO3Weights / generateU3Weights(gpr) up to the parallel directive,
\* for a row with as many labels as the seeded table has entries:
\* mult_.clear(), then the team starts
TeamEnter(gpr) ==
  /\ status = "ok" /\ AllAt("outside")
  /\ Len(Table) > 0 /\ gpr \in TeamRows(Len(Table))
  /\ mult_' = MapClear(mult_)
  /\ call' = [op |-> IF kind = "UNtoSO3" THEN "generateSO3Weights"
                     ELSE "generateU3Weights",
              arg |-> gpr, cleared |-> mult_ # EmptyMap]
  /\ pc' = [w \in Workers |-> "clear"]
  /\ UNCHANGED <<prevars, heapvars, recvars, kind, m_, xyz_, ret, status, printed, mult_tl_, pool, run>>

\* a thread that passes on without clearing its map and clears it at the
\* barrier, between the tasks it runs
C23_ClearLate(w) ==
  \/ /\ pc[w] = "clear"
     /\ pc' = [pc EXCEPT ![w] = "single"]
     /\ UNCHANGED <<prevars, heapvars, recvars, kind, m_, xyz_, mult_, call, ret, status, printed, mult_tl_, pool, run>>
  \/ /\ pc[w] = "barrier" /\ run[w] = <<>> /\ mult_tl_[w] # EmptyMap
     /\ mult_tl_' = [mult_tl_ EXCEPT ![w] = MapClear(@)]
     /\ UNCHANGED <<prevars, heapvars, recvars, kind, m_, xyz_, mult_, call, ret, status, printed, pc, pool, run>>

\* mult_tl_->clear()
TeamClear(w) ==
  /\ pc[w] = "clear"
  /\ mult_tl_' = [mult_tl_ EXCEPT ![w] = MapClear(@)]
  /\ pc' = [pc EXCEPT ![w] = "single"]
  /\ UNCHANGED <<prevars, heapvars, recvars, kind, m_, xyz_, mult_, call, ret, status, printed, pool, run>>

\* #pragma omp single: the first thread to arrive enters the recursion with
\* the top row, the others go to the barrier
TeamSingle(w) ==
  /\ pc[w] = "single"
  /\ IF \A v \in Workers : pc[v] \in {"clear", "single"}
     THEN /\ pc' = [pc EXCEPT ![w] = "root"]
          /\ run' = [run EXCEPT ![w] = <<TaskState(call.arg, ZeroWeight)>>]
     ELSE /\ pc' = [pc EXCEPT ![w] = "barrier"]
          /\ run' = run
  /\ UNCHANGED <<prevars, heapvars, recvars, kind, m_, xyz_, mult_, call, ret, status, printed, mult_tl_, pool>>

\* one pass of while (N > 0) of the call a thread runs, for N > 8; the tasks
\* it creates go to the pool
TeamPass(w) ==
  /\ run[w] # <<>> /\ run[w][1].N > TaskThreshold
  /\ pool' = PoolAdd(pool, Body(run[w][1]).tasks)
  /\ run' = [run EXCEPT ![w] = <<[Body(run[w][1]) EXCEPT !.tasks = <<>>]>>]
  /\ UNCHANGED <<prevars, heapvars, recvars, kind, m_, xyz_, mult_, call, ret, status, printed, pc, mult_tl_>>

\* the passes for N <= 8 of the call a thread runs, every call in them made
\* at once by the thread, and the base case (*mult_tl_)[pp] += 1; the thread
\* of the single construct then goes to the barrier
TeamFinish(w) ==
  /\ run[w] # <<>> /\ run[w][1].N <= TaskThreshold
  /\ mult_tl_' = [mult_tl_ EXCEPT ![w] = MapMerge(@, Loop(run[w][1]))]
  /\ run' = [run EXCEPT ![w] = <<>>]
  /\ pc' = [pc EXCEPT ![w] = "barrier"]
  /\ UNCHANGED <<prevars, heapvars, recvars, kind, m_, xyz_, mult_, call, ret, status, printed, pool>>

\* a thread waiting at the barrier starts a task of the pool
TeamTake(w) ==
  /\ pc[w] = "barrier" /\ run[w] = <<>>
  /\ \E t \in DOMAIN pool :
       /\ run' = [run EXCEPT ![w] = <<TaskState(t[1], t[2])>>]
       /\ pool' = PoolTake(pool, t)
  /\ UNCHANGED <<prevars, heapvars, recvars, kind, m_, xyz_, mult_, call, ret, status, printed, pc, mult_tl_>>

\* the barrier opens: every thread has arrived and no task is left
TeamBarrier ==
  /\ AllAt("barrier")
  /\ pool = EmptyMap /\ \A w \in Workers : run[w] = <<>>
  /\ pc' = [w \in Workers |-> "critical"]
  /\ UNCHANGED <<prevars, heapvars, recvars, kind, m_, xyz_, mult_, call, ret, status, printed, mult_tl_, pool, run>>

\* a critical construct that excludes nobody
C18_NoCritical(p) == TRUE

\* #pragma omp critical: no thread of the team is inside the construct
CriticalFree(p) == \A v \in Workers : p[v] # "folding"

\* a thread enters the critical construct when no other thread is inside
TeamLock(w) ==
  /\ pc[w] = "critical" /\ CriticalFree(pc)
  /\ pc' = [pc EXCEPT ![w] = "folding"]
  /\ UNCHANGED <<prevars, heapvars, recvars, kind, m_, xyz_, mult_, call, ret, status, printed, mult_tl_, pool, run>>

\* inside the critical construct: the loop adding the map of the thread to
\* mult_, and the end of the construct
TeamCritical(w) ==
  /\ pc[w] = "folding"
  /\ mult_' = MergeCritical(mult_, mult_tl_[w])
  /\ pc' = [pc EXCEPT ![w] = "end"]
  /\ UNCHANGED <<prevars, heapvars, recvars, kind, m_, xyz_, call, ret, status, printed, mult_tl_, pool, run>>

\* the end of the parallel region: the function returns
TeamLeave ==
  /\ AllAt("end")
  /\ pc' = [w \in Workers |-> "outside"]
  /\ UNCHANGED <<prevars, heapvars, recvars, kind, m_, xyz_, mult_, call, ret, status, printed, mult_tl_, pool, run>>

InitOMP ==
  /\ kind \in {"UNtoSO3", "UNtoU3"}
  /\ Constructed
  /\ NoPrecalc /\ NoHeap

NextOMP ==
  \/ \E l \in {MaxL, TaskL} : AllAt("outside") /\ GenerateM(l)
  \/ \E n \in MaxN..TaskN : AllAt("outside") /\ GenerateXYZ(n)
  \/ \E gpr \in TeamRows(Len(Table)) : TeamEnter(gpr)
  \/ \E w \in Workers : TeamClear(w)
  \/ \E w \in Workers : TeamSingle(w)
  \/ \E w \in Workers : TeamPass(w)
  \/ \E w \in Workers : TeamFinish(w)
  \/ \E w \in Workers : TeamTake(w)
  \/ TeamBarrier
  \/ \E w \in Workers : TeamLock(w)
  \/ \E w \in Workers : TeamCritical(w)
  \/ TeamLeave

SpecOMP == InitOMP /\ [][NextOMP]_vars

\* ------------------------------------- the recursion followed call by call
\* The serial build of generateSO3Weights / generateU3Weights with the calls
\* of generateSO3WeightsRec / generateU3WeightsRec made one at a time: stack
\* holds the frames of the calls under way, each a loop state with trace set.
\* A step is one pass of the loop of the running frame (its calls listed in
\* the frame), the next listed call, or the base case and the return.  A
\* callee has its own copy of the row and of pp (both are passed by value),
\* so a pass may be applied to the frame before the calls it lists are made.

\* the rows of size labels the recursion is followed on: every row for a
\* size of at most Groups; beyond, rows of ones and zeros with few ones, with
\* few zeros, or with as many ones as zeros
WalkRows(size) ==
  IF size <= Groups
  THEN {gpr \in RowsUpTo(size) : RowSum(gpr) = size}
  ELSE TeamRows(size)
       \cup {<<0, 0, 0, size - z, z>> : z \in 0..MaxOnes}
       \cup {<<0, 0, 0, size \div 2, size - (size \div 2)>>}

\* the entry of generateSO3WeightsRec / generateU3WeightsRec(gpr, pp)
Frame(gpr, pp) ==
  [gpr |-> gpr, pp |-> pp, N |-> RowSum(gpr) - 1, out |-> EmptyMap,
   tasks |-> <<>>, omp |-> FALSE, trace |-> TRUE]

\* the base case of a frame writing to the table of multiplicities mult
Emit(mult, s) ==
  IF kind = "UNtoSO3" THEN SO3Emit(m_, [s EXCEPT !.out = mult])
  ELSE U3Emit(xyz_, [s EXCEPT !.out = mult])

\* generateSO3Weights / generateU3Weights(gpr) up to the call of the
\* recursion, for a row with as many labels as the seeded table has entries
WalkEnter(gpr) ==
  /\ status = "ok" /\ stack = <<>>
  /\ Len(Table) > 0 /\ gpr \in WalkRows(Len(Table))
  /\ mult_' = MapClear(mult_)
  /\ call' = [op |-> IF kind = "UNtoSO3" THEN "generateSO3Weights"
                     ELSE "generateU3Weights",
              arg |-> gpr, cleared |-> mult_ # EmptyMap]
  /\ stack' = <<Frame(gpr, ZeroWeight)>>
  /\ pass' = <<>>
  /\ UNCHANGED <<prevars, heapvars, kind, m_, xyz_, ret, status, printed, ompvars>>

\* one pass of while (N > 0) of the running frame
WalkPass ==
  /\ stack # <<>>
  /\ LET top == stack[Len(stack)]
     IN /\ top.tasks = <<>> /\ top.N > 0
        /\ stack' = [stack EXCEPT ![Len(stack)] = Body(top)]
        /\ pass' = [gpr |-> top.gpr, pp |-> top.pp, N |-> top.N,
                    calls |-> Body(top).tasks,
                    left |-> <<Body(top).gpr, Body(top).pp>>]
  /\ UNCHANGED <<prevars, heapvars, kind, m_, xyz_, mult_, call, ret, status, printed, ompvars>>

\* the next call of the pass: a new frame
WalkCall ==
  /\ stack # <<>>
  /\ LET top == stack[Len(stack)]
     IN /\ top.tasks # <<>>
        /\ stack' = Append([stack EXCEPT ![Len(stack)].tasks = Tail(@)],
                           Frame(Head(top.tasks)[1], Head(top.tasks)[2]))
  /\ UNCHANGED <<prevars, heapvars, kind, m_, xyz_, mult_, call, ret, status, printed, ompvars, pass>>

\* the base case of the running frame, mult_[pp] += 1, and its return
WalkEmit ==
  /\ stack # <<>>
  /\ LET top == stack[Len(stack)]
     IN /\ top.tasks = <<>> /\ top.N = 0
        /\ mult_' = Emit(mult_, top)
        /\ stack' = SubSeq(stack, 1, Len(stack) - 1)
  /\ UNCHANGED <<prevars, heapvars, kind, m_, xyz_, call, ret, status, printed, ompvars, pass>>

NextWalk ==
  \/ stack = <<>> /\ \E l \in 0..MaxDeepL : GenerateM(l)
  \/ stack = <<>> /\ \E n \in 0..MaxDeepN : GenerateXYZ(n)
  \/ stack = <<>> /\ \E gpr \in WalkRows(Len(Table)) : WalkEnter(gpr)
  \/ WalkPass
  \/ WalkCall
  \/ WalkEmit

SpecWalk == InitOMP /\ [][NextWalk]_vars

\* ------------------------------------- the build with the precalculation
\* The members and functions under #ifndef UNTOSO3_DISABLE_PRECALC and
\* #ifndef UNTOU3_DISABLE_PRECALC, as the headers have them behind their
\* #error directive: cnt_ and ptr_ set by the constructor (init_cnt_ptr),
\* conts_ filled by generateM / generateXYZ (init_conts), the loop
\* while (N > 2) and the base case that looks the row up.  The build is the
\* serial one with tail call elimination.  A pointer into conts_ is the index
\* it points to.

\* largest l and n of the tables seeded in that build, and the largest number
\* of twos of a row enumerated on a table of more than three entries
MaxPreL == 2
MaxPreN == 2
MaxTwos == 2

\* std::array<..., 4> at every level of cnt_ and ptr_; std::array<int16_t, 45>
\* conts_, and the three components of an entry in std::array<uint16_t, 3 * 45>
PreIndex == 4
ContsSize == 45
Components == 3

\* while (N > 2): the rows of at most three labels are looked up
PreDepth == 2

\* the rows cnt_ and ptr_ are indexed by
PreRows ==
  (0..(PreIndex - 1)) \X (0..(PreIndex - 1)) \X (0..(PreIndex - 1))
    \X (0..(PreIndex - 1)) \X (0..(PreIndex - 1))

\* init_cnt_ptr of UNtoSO3: the assignments cnt_[..] = c after the loop that
\* zeroes cnt_, as <<row, c>>
SO3CntSet ==
  <<<<<<0, 0, 3, 0, 0>>, 1>>,
    <<<<0, 0, 0, 3, 0>>, 1>>,
    <<<<0, 0, 2, 1, 0>>, 3>>,
    <<<<0, 0, 2, 0, 1>>, 6>>,
    <<<<0, 0, 1, 2, 0>>, 3>>,
    <<<<0, 0, 0, 2, 1>>, 3>>,
    <<<<0, 0, 1, 0, 2>>, 6>>,
    <<<<0, 0, 0, 1, 2>>, 3>>,
    <<<<0, 0, 1, 1, 1>>, 8>>,
    <<<<0, 0, 2, 0, 0>>, 1>>,
    <<<<0, 0, 0, 2, 0>>, 1>>,
    <<<<0, 0, 1, 1, 0>>, 2>>,
    <<<<0, 0, 1, 0, 1>>, 3>>,
    <<<<0, 0, 0, 1, 1>>, 2>>,
    <<<<0, 0, 1, 0, 0>>, 1>>,
    <<<<0, 0, 0, 1, 0>>, 1>>>>

\* init_cnt_ptr of UNtoSO3: the assignments ptr_[..] = p, each with the
\* p += that follows it (0 after the last), as <<row, increment>>
SO3PtrSteps ==
  <<<<<<0, 0, 3, 0, 0>>, 1>>,
    <<<<0, 0, 0, 3, 0>>, 1>>,
    <<<<0, 0, 2, 1, 0>>, 3>>,
    <<<<0, 0, 2, 0, 1>>, 6>>,
    <<<<0, 0, 1, 2, 0>>, 3>>,
    <<<<0, 0, 0, 2, 1>>, 3>>,
    <<<<0, 0, 1, 0, 2>>, 6>>,
    <<<<0, 0, 0, 1, 2>>, 3>>,
    <<<<0, 0, 1, 1, 1>>, 8>>,
    <<<<0, 0, 2, 0, 0>>, 1>>,
    <<<<0, 0, 0, 2, 0>>, 1>>,
    <<<<0, 0, 1, 1, 0>>, 2>>,
    <<<<0, 0, 1, 0, 1>>, 3>>,
    <<<<0, 0, 0, 1, 1>>, 2>>,
    <<<<0, 0, 1, 0, 0>>, 1>>,
    <<<<0, 0, 0, 1, 0>>, 0>>>>

\* init_conts of UNtoSO3: the assignments *p++ = ..., each the terms
\* <<c, i>> of its sum of c * m_[i]
SO3ContsTerms ==
  <<<<<<2, 2>>, <<2, 1>>, <<2, 0>>>>,
    <<<<1, 2>>, <<1, 1>>, <<1, 0>>>>,
    <<<<1, 2>>, <<2, 1>>, <<2, 0>>>>,
    <<<<2, 2>>, <<1, 1>>, <<2, 0>>>>,
    <<<<2, 2>>, <<2, 1>>, <<1, 0>>>>,
    <<<<0, 2>>, <<2, 1>>, <<2, 0>>>>,
    <<<<1, 2>>, <<1, 1>>, <<2, 0>>>>,
    <<<<1, 2>>, <<2, 1>>, <<1, 0>>>>,
    <<<<2, 2>>, <<0, 1>>, <<2, 0>>>>,
    <<<<2, 2>>, <<1, 1>>, <<1, 0>>>>,
    <<<<2, 2>>, <<2, 1>>, <<0, 0>>>>,
    <<<<1, 2>>, <<1, 1>>, <<2, 0>>>>,
    <<<<1, 2>>, <<2, 1>>, <<1, 0>>>>,
    <<<<2, 2>>, <<1, 1>>, <<1, 0>>>>,
    <<<<0, 2>>, <<1, 1>>, <<1, 0>>>>,
    <<<<1, 2>>, <<0, 1>>, <<1, 0>>>>,
    <<<<1, 2>>, <<1, 1>>, <<0, 0>>>>,
    <<<<0, 2>>, <<0, 1>>, <<2, 0>>>>,
    <<<<0, 2>>, <<1, 1>>, <<1, 0>>>>,
    <<<<0, 2>>, <<2, 1>>, <<0, 0>>>>,
    <<<<1, 2>>, <<0, 1>>, <<1, 0>>>>,
    <<<<1, 2>>, <<1, 1>>, <<0, 0>>>>,
    <<<<2, 2>>, <<0, 1>>, <<0, 0>>>>,
    <<<<0, 2>>, <<0, 1>>, <<1, 0>>>>,
    <<<<0, 2>>, <<1, 1>>, <<0, 0>>>>,
    <<<<1, 2>>, <<0, 1>>, <<0, 0>>>>,
    <<<<0, 2>>, <<1, 1>>, <<2, 0>>>>,
    <<<<0, 2>>, <<2, 1>>, <<1, 0>>>>,
    <<<<1, 2>>, <<0, 1>>, <<2, 0>>>>,
    <<<<1, 2>>, <<1, 1>>, <<1, 0>>>>,
    <<<<1, 2>>, <<2, 1>>, <<0, 0>>>>,
    <<<<1, 2>>, <<1, 1>>, <<1, 0>>>>,
    <<<<2, 2>>, <<0, 1>>, <<1, 0>>>>,
    <<<<2, 2>>, <<1, 1>>, <<0, 0>>>>,
    <<<<2, 1>>, <<2, 0>>>>,
    <<<<1, 1>>, <<1, 0>>>>,
    <<<<1, 1>>, <<2, 0>>>>,
    <<<<2, 1>>, <<1, 0>>>>,
    <<<<0, 1>>, <<2, 0>>>>,
    <<<<2, 1>>, <<0, 0>>>>,
    <<<<1, 1>>, <<1, 0>>>>,
    <<<<0, 1>>, <<1, 0>>>>,
    <<<<1, 1>>, <<0, 0>>>>,
    <<<<2, 0>>>>,
    <<<<1, 0>>>>>>

\* init_cnt_ptr of UNtoU3, as for UNtoSO3
U3CntSet ==
  <<<<<<0, 0, 3, 0, 0>>, 1>>,
    <<<<0, 0, 0, 3, 0>>, 1>>,
    <<<<0, 0, 2, 1, 0>>, 3>>,
    <<<<0, 0, 2, 0, 1>>, 6>>,
    <<<<0, 0, 1, 2, 0>>, 3>>,
    <<<<0, 0, 0, 2, 1>>, 3>>,
    <<<<0, 0, 1, 0, 2>>, 6>>,
    <<<<0, 0, 0, 1, 2>>, 3>>,
    <<<<0, 0, 1, 1, 1>>, 8>>,
    <<<<0, 0, 2, 0, 0>>, 1>>,
    <<<<0, 0, 0, 2, 0>>, 1>>,
    <<<<0, 0, 1, 1, 0>>, 2>>,
    <<<<0, 0, 1, 0, 1>>, 3>>,
    <<<<0, 0, 0, 1, 1>>, 2>>,
    <<<<0, 0, 1, 0, 0>>, 1>>,
    <<<<0, 0, 0, 1, 0>>, 1>>>>

U3PtrSteps ==
  <<<<<<0, 0, 3, 0, 0>>, 1 * 3>>,
    <<<<0, 0, 0, 3, 0>>, 1 * 3>>,
    <<<<0, 0, 2, 1, 0>>, 3 * 3>>,
    <<<<0, 0, 2, 0, 1>>, 6 * 3>>,
    <<<<0, 0, 1, 2, 0>>, 3 * 3>>,
    <<<<0, 0, 0, 2, 1>>, 3 * 3>>,
    <<<<0, 0, 1, 0, 2>>, 6 * 3>>,
    <<<<0, 0, 0, 1, 2>>, 3 * 3>>,
    <<<<0, 0, 1, 1, 1>>, 8 * 3>>,
    <<<<0, 0, 2, 0, 0>>, 1 * 3>>,
    <<<<0, 0, 0, 2, 0>>, 1 * 3>>,
    <<<<0, 0, 1, 1, 0>>, 2 * 3>>,
    <<<<0, 0, 1, 0, 1>>, 3 * 3>>,
    <<<<0, 0, 0, 1, 1>>, 2 * 3>>,
    <<<<0, 0, 1, 0, 0>>, 1 * 3>>,
    <<<<0, 0, 0, 1, 0>>, 0>>>>

\* init_conts of UNtoU3: the assignments *p++ = ..., each <<k, terms>> with
\* the terms <<c, i>> of its sum of c * xyz_[k][i]
U3ContsTerms ==
  <<<<0, <<<<2, 2>>, <<2, 1>>, <<2, 0>>>>>>,
    <<1, <<<<2, 2>>, <<2, 1>>, <<2, 0>>>>>>,
    <<2, <<<<2, 2>>, <<2, 1>>, <<2, 0>>>>>>,
    <<0, <<<<1, 2>>, <<1, 1>>, <<1, 0>>>>>>,
    <<1, <<<<1, 2>>, <<1, 1>>, <<1, 0>>>>>>,
    <<2, <<<<1, 2>>, <<1, 1>>, <<1, 0>>>>>>,
    <<0, <<<<1, 2>>, <<2, 1>>, <<2, 0>>>>>>,
    <<1, <<<<1, 2>>, <<2, 1>>, <<2, 0>>>>>>,
    <<2, <<<<1, 2>>, <<2, 1>>, <<2, 0>>>>>>,
    <<0, <<<<2, 2>>, <<1, 1>>, <<2, 0>>>>>>,
    <<1, <<<<2, 2>>, <<1, 1>>, <<2, 0>>>>>>,
    <<2, <<<<2, 2>>, <<1, 1>>, <<2, 0>>>>>>,
    <<0, <<<<2, 2>>, <<2, 1>>, <<1, 0>>>>>>,
    <<1, <<<<2, 2>>, <<2, 1>>, <<1, 0>>>>>>,
    <<2, <<<<2, 2>>, <<2, 1>>, <<1, 0>>>>>>,
    <<0, <<<<0, 2>>, <<2, 1>>, <<2, 0>>>>>>,
    <<1, <<<<0, 2>>, <<2, 1>>, <<2, 0>>>>>>,
    <<2, <<<<0, 2>>, <<2, 1>>, <<2, 0>>>>>>,
    <<0, <<<<1, 2>>, <<1, 1>>, <<2, 0>>>>>>,
    <<1, <<<<1, 2>>, <<1, 1>>, <<2, 0>>>>>>,
    <<2, <<<<1, 2>>, <<1, 1>>, <<2, 0>>>>>>,
    <<0, <<<<1, 2>>, <<2, 1>>, <<1, 0>>>>>>,
    <<1, <<<<1, 2>>, <<2, 1>>, <<1, 0>>>>>>,
    <<2, <<<<1, 2>>, <<2, 1>>, <<1, 0>>>>>>,
    <<0, <<<<2, 2>>, <<0, 1>>, <<2, 0>>>>>>,
    <<1, <<<<2, 2>>, <<0, 1>>, <<2, 0>>>>>>,
    <<2, <<<<2, 2>>, <<0, 1>>, <<2, 0>>>>>>,
    <<0, <<<<2, 2>>, <<1, 1>>, <<1, 0>>>>>>,
    <<1, <<<<2, 2>>, <<1, 1>>, <<1, 0>>>>>>,
    <<2, <<<<2, 2>>, <<1, 1>>, <<1, 0>>>>>>,
    <<0, <<<<2, 2>>, <<2, 1>>, <<0, 0>>>>>>,
    <<1, <<<<2, 2>>, <<2, 1>>, <<0, 0>>>>>>,
    <<2, <<<<2, 2>>, <<2, 1>>, <<0, 0>>>>>>,
    <<0, <<<<1, 2>>, <<1, 1>>, <<2, 0>>>>>>,
    <<1, <<<<1, 2>>, <<1, 1>>, <<2, 0>>>>>>,
    <<2, <<<<1, 2>>, <<1, 1>>, <<2, 0>>>>>>,
    <<0, <<<<1, 2>>, <<2, 1>>, <<1, 0>>>>>>,
    <<1, <<<<1, 2>>, <<2, 1>>, <<1, 0>>>>>>,
    <<2, <<<<1, 2>>, <<2, 1>>, <<1, 0>>>>>>,
    <<0, <<<<2, 2>>, <<1, 1>>, <<1, 0>>>>>>,
    <<1, <<<<2, 2>>, <<1, 1>>, <<1, 0>>>>>>,
    <<2, <<<<2, 2>>, <<1, 1>>, <<1, 0>>>>>>,
    <<0, <<<<0, 2>>, <<1, 1>>, <<1, 0>>>>>>,
    <<1, <<<<0, 2>>, <<1, 1>>, <<1, 0>>>>>>,
    <<2, <<<<0, 2>>, <<1, 1>>, <<1, 0>>>>>>,
    <<0, <<<<1, 2>>, <<0, 1>>, <<1, 0>>>>>>,
    <<1, <<<<1, 2>>, <<0, 1>>, <<1, 0>>>>>>,
    <<2, <<<<1, 2>>, <<0, 1>>, <<1, 0>>>>>>,
    <<0, <<<<1, 2>>, <<1, 1>>, <<0, 0>>>>>>,
    <<1, <<<<1, 2>>, <<1, 1>>, <<0, 0>>>>>>,
    <<2, <<<<1, 2>>, <<1, 1>>, <<0, 0>>>>>>,
    <<0, <<<<0, 2>>, <<0, 1>>, <<2, 0>>>>>>,
    <<1, <<<<0, 2>>, <<0, 1>>, <<2, 0>>>>>>,
    <<2, <<<<0, 2>>, <<0, 1>>, <<2, 0>>>>>>,
    <<0, <<<<0, 2>>, <<1, 1>>, <<1, 0>>>>>>,
    <<1, <<<<0, 2>>, <<1, 1>>, <<1, 0>>>>>>,
    <<2, <<<<0, 2>>, <<1, 1>>, <<1, 0>>>>>>,
    <<0, <<<<0, 2>>, <<2, 1>>, <<0, 0>>>>>>,
    <<1, <<<<0, 2>>, <<2, 1>>, <<0, 0>>>>>>,
    <<2, <<<<0, 2>>, <<2, 1>>, <<0, 0>>>>>>,
    <<0, <<<<1, 2>>, <<0, 1>>, <<1, 0>>>>>>,
    <<1, <<<<1, 2>>, <<0, 1>>, <<1, 0>>>>>>,
    <<2, <<<<1, 2>>, <<0, 1>>, <<1, 0>>>>>>,
    <<0, <<<<1, 2>>, <<1, 1>>, <<0, 0>>>>>>,
    <<1, <<<<1, 2>>, <<1, 1>>, <<0, 0>>>>>>,
    <<2, <<<<1, 2>>, <<1, 1>>, <<0, 0>>>>>>,
    <<0, <<<<2, 2>>, <<0, 1>>, <<0, 0>>>>>>,
    <<1, <<<<2, 2>>, <<0, 1>>, <<0, 0>>>>>>,
    <<2, <<<<2, 2>>, <<0, 1>>, <<0, 0>>>>>>,
    <<0, <<<<0, 2>>, <<0, 1>>, <<1, 0>>>>>>,
    <<1, <<<<0, 2>>, <<0, 1>>, <<1, 0>>>>>>,
    <<2, <<<<0, 2>>, <<0, 1>>, <<1, 0>>>>>>,
    <<0, <<<<0, 2>>, <<1, 1>>, <<0, 0>>>>>>,
    <<1, <<<<0, 2>>, <<1, 1>>, <<0, 0>>>>>>,
    <<2, <<<<0, 2>>, <<1, 1>>, <<0, 0>>>>>>,
    <<0, <<<<1, 2>>, <<0, 1>>, <<0, 0>>>>>>,
    <<1, <<<<1, 2>>, <<0, 1>>, <<0, 0>>>>>>,
    <<2, <<<<1, 2>>, <<0, 1>>, <<0, 0>>>>>>,
    <<0, <<<<0, 2>>, <<1, 1>>, <<2, 0>>>>>>,
    <<1, <<<<0, 2>>, <<1, 1>>, <<2, 0>>>>>>,
    <<2, <<<<0, 2>>, <<1, 1>>, <<2, 0>>>>>>,
    <<0, <<<<0, 2>>, <<2, 1>>, <<1, 0>>>>>>,
    <<1, <<<<0, 2>>, <<2, 1>>, <<1, 0>>>>>>,
    <<2, <<<<0, 2>>, <<2, 1>>, <<1, 0>>>>>>,
    <<0, <<<<1, 2>>, <<0, 1>>, <<2, 0>>>>>>,
    <<1, <<<<1, 2>>, <<0, 1>>, <<2, 0>>>>>>,
    <<2, <<<<1, 2>>, <<0, 1>>, <<2, 0>>>>>>,
    <<0, <<<<1, 2>>, <<1, 1>>, <<1, 0>>>>>>,
    <<1, <<<<1, 2>>, <<1, 1>>, <<1, 0>>>>>>,
    <<2, <<<<1, 2>>, <<1, 1>>, <<1, 0>>>>>>,
    <<0, <<<<1, 2>>, <<2, 1>>, <<0, 0>>>>>>,
    <<1, <<<<1, 2>>, <<2, 1>>, <<0, 0>>>>>>,
    <<2, <<<<1, 2>>, <<2, 1>>, <<0, 0>>>>>>,
    <<0, <<<<1, 2>>, <<1, 1>>, <<1, 0>>>>>>,
    <<1, <<<<1, 2>>, <<1, 1>>, <<1, 0>>>>>>,
    <<2, <<<<1, 2>>, <<1, 1>>, <<1, 0>>>>>>,
    <<0, <<<<2, 2>>, <<0, 1>>, <<1, 0>>>>>>,
    <<1, <<<<2, 2>>, <<0, 1>>, <<1, 0>>>>>>,
    <<2, <<<<2, 2>>, <<0, 1>>, <<1, 0>>>>>>,
    <<0, <<<<2, 2>>, <<1, 1>>, <<0, 0>>>>>>,
    <<1, <<<<2, 2>>, <<1, 1>>, <<0, 0>>>>>>,
    <<2, <<<<2, 2>>, <<1, 1>>, <<0, 0>>>>>>,
    <<0, <<<<2, 1>>, <<2, 0>>>>>>,
    <<1, <<<<2, 1>>, <<2, 0>>>>>>,
    <<2, <<<<2, 1>>, <<2, 0>>>>>>,
    <<0, <<<<1, 1>>, <<1, 0>>>>>>,
    <<1, <<<<1, 1>>, <<1, 0>>>>>>,
    <<2, <<<<1, 1>>, <<1, 0>>>>>>,
    <<0, <<<<1, 1>>, <<2, 0>>>>>>,
    <<1, <<<<1, 1>>, <<2, 0>>>>>>,
    <<2, <<<<1, 1>>, <<2, 0>>>>>>,
    <<0, <<<<2, 1>>, <<1, 0>>>>>>,
    <<1, <<<<2, 1>>, <<1, 0>>>>>>,
    <<2, <<<<2, 1>>, <<1, 0>>>>>>,
    <<0, <<<<0, 1>>, <<2, 0>>>>>>,
    <<1, <<<<0, 1>>, <<2, 0>>>>>>,
    <<2, <<<<0, 1>>, <<2, 0>>>>>>,
    <<0, <<<<2, 1>>, <<0, 0>>>>>>,
    <<1, <<<<2, 1>>, <<0, 0>>>>>>,
    <<2, <<<<2, 1>>, <<0, 0>>>>>>,
    <<0, <<<<1, 1>>, <<1, 0>>>>>>,
    <<1, <<<<1, 1>>, <<1, 0>>>>>>,
    <<2, <<<<1, 1>>, <<1, 0>>>>>>,
    <<0, <<<<0, 1>>, <<1, 0>>>>>>,
    <<1, <<<<0, 1>>, <<1, 0>>>>>>,
    <<2, <<<<0, 1>>, <<1, 0>>>>>>,
    <<0, <<<<1, 1>>, <<0, 0>>>>>>,
    <<1, <<<<1, 1>>, <<0, 0>>>>>>,
    <<2, <<<<1, 1>>, <<0, 0>>>>>>,
    <<0, <<<<2, 0>>>>>>,
    <<1, <<<<2, 0>>>>>>,
    <<2, <<<<2, 0>>>>>>,
    <<0, <<<<1, 0>>>>>>,
    <<1, <<<<1, 0>>>>>>,
    <<2, <<<<1, 0>>>>>>>>

\* cnt_ after init_cnt_ptr: 0 but for the rows assigned
init_cnt(set) ==
  [r \in PreRows |->
     IF \E i \in 1..Len(set) : set[i][1] = r
     THEN set[CHOOSE i \in 1..Len(set) : set[i][1] = r][2]
     ELSE 0]

\* p at the i-th assignment of ptr_, conts_.data() being 0
RECURSIVE PtrBefore(_, _)
PtrBefore(steps, i) ==
  IF i = 1 THEN 0 ELSE PtrBefore(steps, i - 1) + steps[i - 1][2]

\* ptr_ after init_cnt_ptr: the rows assigned; the others are not initialized
init_ptr(steps) ==
  [r \in {steps[i][1] : i \in 1..Len(steps)} |->
     PtrBefore(steps, CHOOSE i \in 1..Len(steps) : steps[i][1] = r)]

\* every index of the terms is within a table of len entries
TermsInRange(len, terms) == \A i \in 1..Len(terms) : terms[i][2] < len

\* the sum of c * m_[i] over the terms
RECURSIVE SO3TermsSum(_, _)
SO3TermsSum(m, terms) ==
  IF terms = <<>> THEN 0
  ELSE Head(terms)[1] * MAt(m, Head(terms)[2]) + SO3TermsSum(m, Tail(terms))

\* conts_ after init_conts on the table m: an assignment that reads past the
\* end of m_ (operator[] of std::vector, unchecked) stores the value g
SO3init_conts(conts, m, g) ==
  [i \in 1..Len(conts) |->
     IF i > Len(SO3ContsTerms) THEN conts[i]
     ELSE IF TermsInRange(Len(m), SO3ContsTerms[i])
          THEN SO3TermsSum(m, SO3ContsTerms[i])
          ELSE g]

\* the sum of c * xyz_[k][i] over the terms
RECURSIVE U3TermsSum(_, _, _)
U3TermsSum(xyz, k, terms) ==
  IF terms = <<>> THEN 0
  ELSE Head(terms)[1] * XYZAt(xyz, Head(terms)[2])[k + 1]
         + U3TermsSum(xyz, k, Tail(terms))

U3init_conts(conts, xyz, g) ==
  [i \in 1..Len(conts) |->
     IF i > Len(U3ContsTerms) THEN conts[i]
     ELSE IF TermsInRange(Len(xyz), U3ContsTerms[i][2])
          THEN U3TermsSum(xyz, U3ContsTerms[i][1], U3ContsTerms[i][2])
          ELSE g]

\* init_conts reads an entry the table does not have
ContsReadPastEnd(len, terms) ==
  \E i \in 1..Len(terms) : ~TermsInRange(len, terms[i])

\* the base case: for (i < c) { pp_ = pp + *p++; mult_[pp_] += 1; }
RECURSIVE SO3PreAdd(_, _, _, _, _)
SO3PreAdd(conts, p, c, pp, out) ==
  IF c = 0 THEN out
  ELSE SO3PreAdd(conts, p + 1, c - 1, pp, MapAdd(out, pp + conts[p + 1], 1))

\* the base case: c = cnt_[n4][n3][n2][n1][n0]; with c > 0 the loop over the
\* entries of conts_ from ptr_[n4][n3][n2][n1][n0], else mult_[pp] += 1
SO3EmitPre(T, s) ==
  IF T.cnt[s.gpr] > 0
  THEN SO3PreAdd(T.conts, T.ptr[s.gpr], T.cnt[s.gpr], s.pp, s.out)
  ELSE MapAdd(s.out, s.pp, 1)

RECURSIVE SO3RecPre(_, _, _, _)

RECURSIVE SO3CallsPre(_, _, _, _)
SO3CallsPre(T, m, calls, M) ==
  IF calls = <<>> THEN M
  ELSE SO3CallsPre(T, m, Tail(calls),
                   MapMerge(M, SO3RecPre(T, m, Head(calls)[1], Head(calls)[2])))

\* while (N > 2) { body } followed by the base case
RECURSIVE SO3LoopPre(_, _, _)
SO3LoopPre(T, m, s) ==
  IF s.N > PreDepth
  THEN SO3LoopPre(T, m,
         [SO3Body(m, s) EXCEPT !.tasks = <<>>,
                               !.out = SO3CallsPre(T, m, SO3Body(m, s).tasks, @)])
  ELSE SO3EmitPre(T, s)

\* generateSO3WeightsRec(gpr, pp) of the build with the precalculation
SO3RecPre(T, m, gpr, pp) ==
  SO3LoopPre(T, m, [gpr |-> gpr, pp |-> pp, N |-> RowSum(gpr) - 1,
                    out |-> EmptyMap, tasks |-> <<>>, omp |-> FALSE,
                    trace |-> TRUE])

\* the base case of UNtoU3: pp_[k] = pp[k] + *p++ for the three components
RECURSIVE U3PreAdd(_, _, _, _, _)
U3PreAdd(conts, p, c, pp, out) ==
  IF c = 0 THEN out
  ELSE U3PreAdd(conts, p + Components, c - 1, pp,
                MapAdd(out, VAdd(pp, <<conts[p + 1], conts[p + 2], conts[p + 3]>>), 1))

U3EmitPre(T, s) ==
  IF T.cnt[s.gpr] > 0
  THEN U3PreAdd(T.conts, T.ptr[s.gpr], T.cnt[s.gpr], s.pp, s.out)
  ELSE MapAdd(s.out, s.pp, 1)

RECURSIVE U3RecPre(_, _, _, _)

RECURSIVE U3CallsPre(_, _, _, _)
U3CallsPre(T, xyz, calls, M) ==
  IF calls = <<>> THEN M
  ELSE U3CallsPre(T, xyz, Tail(calls),
                  MapMerge(M, U3RecPre(T, xyz, Head(calls)[1], Head(calls)[2])))

RECURSIVE U3LoopPre(_, _, _)
U3LoopPre(T, xyz, s) ==
  IF s.N > PreDepth
  THEN U3LoopPre(T, xyz,
         [U3Body(xyz, s) EXCEPT !.tasks = <<>>,
                                !.out = U3CallsPre(T, xyz, U3Body(xyz, s).tasks, @)])
  ELSE U3EmitPre(T, s)

U3RecPre(T, xyz, gpr, pp) ==
  U3LoopPre(T, xyz, [gpr |-> gpr, pp |-> pp, N |-> RowSum(gpr) - 1,
                     out |-> EmptyMap, tasks |-> <<>>, omp |-> FALSE,
                     trace |-> TRUE])

\* the tables of the object
PreTables == [cnt |-> cnt_, ptr |-> ptr_, conts |-> conts_]

\* the rows of size labels enumerated in that build: every row on a table of
\* at most three entries, rows of twos, ones and zeros on a longer one
PreTopRows(size) ==
  IF size <= PreDepth + 1
  THEN {gpr \in RowsUpTo(size) : RowSum(gpr) = size}
  ELSE {<<0, 0, n2, n1, size - n2 - n1>> :
          n2 \in 0..MaxTwos, n1 \in 0..MaxOnes}

\* the constructor: init_cnt_ptr(); conts_ is not initialized
InitPre ==
  /\ kind \in {"UNtoSO3", "UNtoU3"}
  /\ Constructed
  /\ cnt_ = init_cnt(IF kind = "UNtoSO3" THEN SO3CntSet ELSE U3CntSet)
  /\ ptr_ = init_ptr(IF kind = "UNtoSO3" THEN SO3PtrSteps ELSE U3PtrSteps)
  /\ \E g \in Garbage :
       conts_ = [i \in 1..(IF kind = "UNtoSO3" THEN ContsSize
                           ELSE Components * ContsSize) |-> g]
  /\ NoHeap

\* generateM(l): the table, then init_conts()
PreGenerateM(l) ==
  /\ kind = "UNtoSO3" /\ status = "ok"
  /\ m_' = generateM(m_, l)
  /\ \E g \in Garbage : conts_' = SO3init_conts(conts_, generateM(m_, l), g)
  /\ status' = IF ContsReadPastEnd(Len(generateM(m_, l)), SO3ContsTerms)
               THEN "undefined" ELSE status
  /\ call' = [op |-> "generateM", arg |-> <<l>>, reseeded |-> m_ # <<>>]
  /\ UNCHANGED <<heapvars, recvars, ompvars, kind, xyz_, mult_, ret, printed, cnt_, ptr_>>

\* generateXYZ(n): the table, then init_conts()
PreGenerateXYZ(n) ==
  /\ kind = "UNtoU3" /\ status = "ok"
  /\ xyz_' = generateXYZ(xyz_, n)
  /\ \E g \in Garbage : conts_' = U3init_conts(conts_, generateXYZ(xyz_, n), g)
  /\ status' = IF ContsReadPastEnd(Len(generateXYZ(xyz_, n)),
                                    [i \in 1..Len(U3ContsTerms) |-> U3ContsTerms[i][2]])
               THEN "undefined" ELSE status
  /\ call' = [op |-> "generateXYZ", arg |-> <<n>>, reseeded |-> xyz_ # <<>>]
  /\ UNCHANGED <<heapvars, recvars, ompvars, kind, m_, mult_, ret, printed, cnt_, ptr_>>

\* generateSO3Weights(gpr) of that build, for a row with as many labels as
\* the table has entries
PreGenerateSO3Weights(gpr) ==
  /\ kind = "UNtoSO3" /\ status = "ok"
  /\ Len(m_) > 0 /\ gpr \in PreTopRows(Len(m_))
  /\ mult_' = MapMerge(MapClear(mult_), SO3RecPre(PreTables, m_, gpr, 0))
  /\ call' = [op |-> "generateSO3Weights", arg |-> gpr,
              cleared |-> mult_ # EmptyMap]
  /\ UNCHANGED <<prevars, heapvars, recvars, ompvars, kind, m_, xyz_, ret, status, printed>>

\* generateU3Weights(gpr) of that build
PreGenerateU3Weights(gpr) ==
  /\ kind = "UNtoU3" /\ status = "ok"
  /\ Len(xyz_) > 0 /\ gpr \in PreTopRows(Len(xyz_))
  /\ mult_' = MapMerge(MapClear(mult_), U3RecPre(PreTables, xyz_, gpr, <<0, 0, 0>>))
  /\ call' = [op |-> "generateU3Weights", arg |-> gpr,
              cleared |-> mult_ # EmptyMap]
  /\ UNCHANGED <<prevars, heapvars, recvars, ompvars, kind, m_, xyz_, ret, status, printed>>

NextPre ==
  \/ \E l \in 0..MaxPreL : PreGenerateM(l)
  \/ \E n \in 0..MaxPreN : PreGenerateXYZ(n)
  \/ \E gpr \in PreTopRows(Len(m_)) : PreGenerateSO3Weights(gpr)
  \/ \E gpr \in PreTopRows(Len(xyz_)) : PreGenerateU3Weights(gpr)

SpecPre == InitPre /\ [][NextPre]_vars

\* --------------------------- the threadprivate maps of two objects (OpenMP)
\* mult_tl_ is a static member under #pragma omp threadprivate: every thread
\* has one pointer for all the objects of an instantiation. The constructor
\* of every object assigns it a new map in every thread, the destructor of
\* every object deletes what it points to in every thread, and an
\* enumeration dereferences it in every thread. Followed here are the blocks
\* new gives out, for two objects of one instantiation; what an enumeration
\* enters in the maps is followed in SpecOMP. The static pointer of a thread
\* is null (0) until a constructor has run.

\* the objects of the one instantiation
Objects == {"a", "b"}

\* the largest number of constructors run
MaxConstructions == 3

\* the block the pointer of thread w holds has been given out and not freed
Allocated(w) == tlptr[w] # 0 /\ heap[tlptr[w]] = "allocated"

\* UNtoSO3() / UNtoU3() of the object o up to #pragma omp parallel
HeapConstruct(o) ==
  /\ status = "ok" /\ AllAt("outside")
  /\ o \notin live
  /\ Len(heap) + NumWorkers <= MaxConstructions * NumWorkers
  /\ call' = [op |-> "construct", arg |-> o]
  /\ pc' = [w \in Workers |-> "new"]
  /\ UNCHANGED <<prevars, heapvars, recvars, kind, m_, xyz_, mult_, ret, status, printed, mult_tl_, pool, run>>

\* mult_tl_ = new SO3MultMap{} in a thread: the pointer it held is
\* overwritten, the block it pointed to neither freed nor kept anywhere
HeapNew(w) ==
  /\ status = "ok" /\ pc[w] = "new"
  /\ heap' = Append(heap, "allocated")
  /\ tlptr' = [tlptr EXCEPT ![w] = Len(heap) + 1]
  /\ pc' = [pc EXCEPT ![w] = "end"]
  /\ UNCHANGED <<prevars, recvars, kind, m_, xyz_, mult_, call, ret, status, printed, mult_tl_, pool, run, live>>

\* ~UNtoSO3() / ~UNtoU3() of the live object o up to #pragma omp parallel
HeapDestruct(o) ==
  /\ status = "ok" /\ AllAt("outside")
  /\ o \in live
  /\ live' = live \ {o}
  /\ call' = [op |-> "destruct", arg |-> o]
  /\ pc' = [w \in Workers |-> "delete"]
  /\ UNCHANGED <<prevars, recvars, kind, m_, xyz_, mult_, ret, status, printed, mult_tl_, pool, run, tlptr, heap>>

\* delete mult_tl_ in a thread: the block is freed and the pointer keeps its
\* value; deleting a block freed before is undefined
HeapDelete(w) ==
  /\ status = "ok" /\ pc[w] = "delete"
  /\ IF tlptr[w] = 0
     THEN UNCHANGED <<heap, status>>
     ELSE IF heap[tlptr[w]] = "freed"
          THEN status' = "undefined" /\ heap' = heap
          ELSE heap' = [heap EXCEPT ![tlptr[w]] = "freed"] /\ status' = status
  /\ pc' = [pc EXCEPT ![w] = "end"]
  /\ UNCHANGED <<prevars, recvars, kind, m_, xyz_, mult_, call, ret, printed, mult_tl_, pool, run, live, tlptr>>

\* generateSO3Weights / generateU3Weights of the live object o up to
\* #pragma omp parallel
HeapEnumerate(o) ==
  /\ status = "ok" /\ AllAt("outside")
  /\ o \in live
  /\ call' = [op |-> "enumerate", arg |-> o]
  /\ pc' = [w \in Workers |-> "deref"]
  /\ UNCHANGED <<prevars, heapvars, recvars, kind, m_, xyz_, mult_, ret, status, printed, mult_tl_, pool, run>>

\* mult_tl_->clear() and for (const auto temp : *mult_tl_) in a thread: the
\* pointer is dereferenced; on a freed block that is undefined
HeapDeref(w) ==
  /\ status = "ok" /\ pc[w] = "deref"
  /\ status' = IF Allocated(w) THEN status ELSE "undefined"
  /\ pc' = [pc EXCEPT ![w] = "end"]
  /\ UNCHANGED <<prevars, heapvars, recvars, kind, m_, xyz_, mult_, call, ret, printed, mult_tl_, pool, run>>

\* the end of the parallel region and of the member function; the object of
\* a constructor exists from here on
HeapJoin ==
  /\ status = "ok" /\ AllAt("end")
  /\ live' = IF call.op = "construct" THEN live \cup {call.arg} ELSE live
  /\ pc' = [w \in Workers |-> "outside"]
  /\ UNCHANGED <<prevars, recvars, kind, m_, xyz_, mult_, call, ret, status, printed, mult_tl_, pool, run, tlptr, heap>>

\* before the first constructor: no object, every pointer null
InitHeap ==
  /\ kind \in {"UNtoSO3", "UNtoU3"}
  /\ Constructed
  /\ NoPrecalc /\ NoHeap

NextHeap ==
  \/ \E o \in Objects : HeapConstruct(o)
  \/ \E w \in Workers : HeapNew(w)
  \/ \E o \in Objects : HeapDestruct(o)
  \/ \E w \in Workers : HeapDelete(w)
  \/ \E o \in Objects : HeapEnumerate(o)
  \/ \E w \in Workers : HeapDeref(w)
  \/ HeapJoin

SpecHeap == InitHeap /\ [][NextHeap]_vars

\* ------------------------------------------------------------- properties

\* the last call was an enumeration
EnumeratedSO3 ==
  kind = "UNtoSO3" /\ call.op = "generateSO3Weights" /\ status = "ok"
EnumeratedU3 ==
  kind = "UNtoU3" /\ call.op = "generateU3Weights" /\ status = "ok"

\* the last call was an enumeration of a row with as many labels as the table
\* has entries
ValidSO3 == EnumeratedSO3 /\ RowSum(call.arg) = Len(m_)
ValidU3 == EnumeratedU3 /\ RowSum(call.arg) = Len(xyz_)

\* the dimension of the U(3) irrep f
dimU3(f) == ((f[1] - f[2] + 1) * (f[1] - f[3] + 2) * (f[2] - f[3] + 1)) \div 2

\* the sum over the keys f of dim_U3(f) * getLevelDimensionality(f)
U3DimSum(mult) ==
  U3Total(Tabulate([f \in DOMAIN mult |-> dimU3(f) * U3LevelDim(mult, f)]))

\* C1: after generateM(l) and generateSO3Weights of a row of 2l+1 labels, the
\* sum over the keys w of (2w+1) * getLevelDimensionality(w) is the Weyl
\* dimension of the U(2l+1) irrep of the row; the driver prints that sum
C1_SO3DimensionSum ==
  /\ ValidSO3 => DriverSum(mult_) = dim(RowLabels(call.arg))
  /\ (kind = "driver" /\ status = "exit")
       => printed = Decimal(dim(RowLabels(call.arg[2])))

C1_Witness ==
  ValidSO3 /\ call.arg = <<1, 0, 1, 0, 1>> /\ DriverSum(mult_) = 27

\* C2: after generateXYZ(n) and generateU3Weights of a row of (n+1)(n+2)/2
\* labels, the sum over the keys f of dim_U3(f) * getLevelDimensionality(f)
\* is the Weyl dimension of the U(N) irrep of the row
C2_U3DimensionSum == ValidU3 => U3DimSum(mult_) = dim(RowLabels(call.arg))

C2_Witness ==
  ValidU3 /\ call.arg = <<0, 0, 1, 1, 1>> /\ U3DimSum(mult_) = 8
  /\ mult_[<<1, 1, 1>>] = 2

\* C3: after an enumeration of a row with as many labels as the table has
\* entries, the multiplicities add up to the number of Gelfand-Tsetlin
\* patterns with that top row, the dimension of the U(N) irrep
C3_TotalWeightCount ==
  /\ ValidSO3 => SO3Total(mult_) = dim(RowLabels(call.arg))
  /\ ValidU3 => U3Total(mult_) = dim(RowLabels(call.arg))

C3_Witness ==
  /\ ValidSO3
  /\ call.arg = <<1, 0, 1, 0, 1>>
  /\ SO3Total(mult_) = 27
  /\ mult_[0] = 5

\* C7: after an enumeration of a row with as many labels as the table has
\* entries, the level dimensionality of every key is non-negative: the
\* multiplicity of a key l >= 0 is at least that of l + 1, and the six-term
\* sum of a dominant key is at least 0, so the unsigned arithmetic of
\* getLevelDimensionality does not wrap
C7_NonNegativity ==
  /\ ValidSO3 => \A l \in DOMAIN mult_ : SO3LevelDim(mult_, l) >= 0
  /\ ValidU3 => \A f \in DOMAIN mult_ : U3LevelDim(mult_, f) >= 0

C7_Witness ==
  /\ ValidU3 /\ call.arg = <<0, 0, 1, 1, 1>>
  /\ U3LevelDim(mult_, <<1, 1, 1>>) = 0
  /\ U3LevelDim(mult_, <<2, 1, 0>>) = 1

\* C8: whatever was enumerated before, the table after an enumeration of a
\* row is the one a freshly constructed object seeded alike produces for
\* that row: nothing of an earlier enumeration survives
C8_HistoryIndependence ==
  /\ EnumeratedSO3 => mult_ = generateSO3Weights(m_, EmptyMap, call.arg)
  /\ EnumeratedU3 => mult_ = generateU3Weights(xyz_, EmptyMap, call.arg)

C8_Witness ==
  /\ EnumeratedSO3 /\ call.cleared
  /\ call.arg = <<0, 0, 0, 1, 2>>
  /\ mult_ = (-1 :> 1) @@ (0 :> 1) @@ (1 :> 1)

\* C9: every key of the table has multiplicity at least 1, in every state;
\* getLevelDimensionality looking up an absent neighbour adds no key
C9_KeysAtLeastOne == \A w \in DOMAIN mult_ : mult_[w] >= 1

C9_Witness ==
  /\ kind = "UNtoSO3" /\ call.op = "getLevelDimensionality" /\ status = "ok"
  /\ call.arg = <<1>>
  /\ DOMAIN mult_ = {-1, 0, 1}
  /\ ret = 1

\* the last call was an enumeration of a row whose total is not the size of
\* the table
MismatchSO3 ==
  kind = "UNtoSO3" /\ call.op = "generateSO3Weights"
  /\ RowSum(call.arg) # Len(m_)
MismatchU3 ==
  kind = "UNtoU3" /\ call.op = "generateU3Weights"
  /\ RowSum(call.arg) # Len(xyz_)

\* C5 as the specification states it: an enumeration called with a row whose
\* total is not the size of the table reports the violation and leaves the
\* table of multiplicities as it was
C5_ReportedStateUnchanged ==
  [][(MismatchSO3' \/ MismatchU3') => (status' # "ok" /\ mult_' = mult_)]_vars

\* C5: an enumeration called with a row whose total is not the size of the
\* table reports nothing and does not keep the table of multiplicities: if
\* the recursion stays inside the table of quanta (the total is smaller, or
\* the row holds zeros only) the multiplicities are replaced by those of the
\* given row, which add up to the number of its Gelfand-Tsetlin patterns;
\* otherwise the multiplicities are cleared and the recursion reads the table
\* of quanta past its end
C5_NotReportedStateReplaced ==
  /\ MismatchSO3 =>
       IF ReadsPastEnd(m_, call.arg)
       THEN status = "undefined" /\ mult_ = EmptyMap
       ELSE /\ status = "ok"
            /\ mult_ # EmptyMap
            /\ SO3Total(mult_) = dim(RowLabels(call.arg))
  /\ MismatchU3 =>
       IF ReadsPastEnd(xyz_, call.arg)
       THEN status = "undefined" /\ mult_ = EmptyMap
       ELSE /\ status = "ok"
            /\ mult_ # EmptyMap
            /\ U3Total(mult_) = dim(RowLabels(call.arg))

C5_Witness ==
  /\ MismatchSO3 /\ status = "ok" /\ call.cleared
  /\ Len(m_) = 3 /\ call.arg = <<0, 0, 1, 1, 0>>
  /\ mult_ = (-2 :> 1) @@ (-1 :> 1)

\* the last call was getLevelDimensionality
LevelAskedSO3 == kind = "UNtoSO3" /\ call.op = "getLevelDimensionality"
LevelAskedU3 == kind = "UNtoU3" /\ call.op = "getLevelDimensionality"

\* the multiplicity of w, 0 for a w that is no key
Multiplicity(w) == IF w \in DOMAIN mult_ THEN mult_[w] ELSE 0

\* D(l) = M[l] - M[l+1]
LevelFormulaSO3(l) == Multiplicity(l) - Multiplicity(l + 1)

\* D(f) of the six terms
LevelFormulaU3(f) ==
  Multiplicity(f)
  + Multiplicity(<<f[1] + 1, f[2] + 1, f[3] - 2>>)
  + Multiplicity(<<f[1] + 2, f[2] - 1, f[3] - 1>>)
  - Multiplicity(<<f[1] + 2, f[2], f[3] - 2>>)
  - Multiplicity(<<f[1] + 1, f[2] - 1, f[3]>>)
  - Multiplicity(<<f[1], f[2] + 1, f[3] - 1>>)

Dominant(f) == f[1] >= f[2] /\ f[2] >= f[3]

\* C6 as the specification states it: getLevelDimensionality asked about a
\* label that is no key (l >= 0, or a dominant f) takes its multiplicity as 0
\* and returns the value of the formula, no assertion failing
C6_AbsentLabelIsZero ==
  /\ (LevelAskedSO3 /\ call.arg[1] >= 0 /\ call.arg[1] \notin DOMAIN mult_)
       => (status = "ok" /\ ret = LevelFormulaSO3(call.arg[1]))
  /\ (LevelAskedU3 /\ Dominant(call.arg) /\ call.arg \notin DOMAIN mult_)
       => (status = "ok" /\ ret = LevelFormulaU3(call.arg))

\* C6: getLevelDimensionality asked about a key returns the value of the
\* formula with the multiplicity of every neighbour that is no key taken as
\* 0; asked about l < 0 or a label that is not dominant it returns 0; asked
\* about any other label that is no key its assertion fails (compiled out,
\* it reads through end())
C6_AbsentNeighbourIsZero ==
  /\ LevelAskedSO3 =>
       IF call.arg[1] < 0 THEN status = "ok" /\ ret = 0
       ELSE IF call.arg[1] \in DOMAIN mult_
            THEN status = "ok" /\ ret = LevelFormulaSO3(call.arg[1])
            ELSE status \in {"assertion failed", "undefined"}
  /\ LevelAskedU3 =>
       IF ~Dominant(call.arg) THEN status = "ok" /\ ret = 0
       ELSE IF call.arg \in DOMAIN mult_
            THEN status = "ok" /\ ret = LevelFormulaU3(call.arg)
            ELSE status \in {"assertion failed", "undefined"}

C6_Witness ==
  /\ LevelAskedU3 /\ status = "ok"
  /\ call.arg = <<2, 1, 0>> /\ call.arg \in DOMAIN mult_
  /\ <<3, 0, 0>> \notin DOMAIN mult_
  /\ <<2, 2, -1>> \notin DOMAIN mult_
  /\ ret = 1

\* C10 as the documentation states it: the driver, given the documented input
\* for the U(21) irrep [2,2,2,2,2,2,1,0,...,0], passes its check of the total
\* and prints the total 2168999910
C10_DocumentedExample ==
  (kind = "driver" /\ call.op = "main" /\ call.arg \in DocumentedInputs)
    => (status = "exit" /\ printed = DocumentedTotal)

\* the team has left the parallel region of an enumeration
TeamDone ==
  /\ AllAt("outside") /\ status = "ok"
  /\ call.op \in {"generateSO3Weights", "generateU3Weights"}

\* what the build without OpenMP leaves in mult_ for the row of the call
SerialMap ==
  IF kind = "UNtoSO3"
  THEN MapMerge(EmptyMap, generateSO3WeightsRec(m_, call.arg, 0))
  ELSE MapMerge(EmptyMap, generateU3WeightsRec(xyz_, call.arg, <<0, 0, 0>>))

\* C4: for a row with as many labels as the table has entries, the table of
\* multiplicities the team of threads leaves is the one the serial build
\* leaves, whichever thread ran which task and in whatever order the tasks
\* ran and the threads merged
C4_ParallelEquivalence == TeamDone => mult_ = SerialMap

C4_Witness ==
  /\ TeamDone /\ kind = "UNtoSO3"
  /\ call.arg = <<0, 0, 0, 2, 9>> /\ call.cleared
  /\ \A w \in Workers : mult_tl_[w] # EmptyMap
  /\ \E w \in DOMAIN mult_ : mult_[w] > 1 /\ \A v \in Workers : w \in DOMAIN mult_tl_[v]

\* the last call enumerated the row of three ones on the table of l = 1
ThreeOnes == ValidSO3 /\ Len(m_) = 3 /\ call.arg = <<0, 0, 0, 3, 0>>

\* C11 as the specification states it: after generateM(1) the row of three
\* ones gives the weights -3, -1, 1 and 3, each with multiplicity 1, and the
\* dimension sum holds
C11_ThreeOnesFourWeights ==
  ThreeOnes => /\ mult_ = (-3 :> 1) @@ (-1 :> 1) @@ (1 :> 1) @@ (3 :> 1)
               /\ DriverSum(mult_) = dim(RowLabels(call.arg))

\* C11: after generateM(1) the row of three ones, the irrep [1,1,1] of U(3)
\* with its single Gelfand-Tsetlin pattern, gives the one weight
\* -1 + 0 + 1 = 0 with multiplicity 1, and the dimension sum holds: both
\* sides are 1
C11_ThreeOnesOneWeight ==
  ThreeOnes => /\ mult_ = (0 :> 1)
               /\ DriverSum(mult_) = dim(RowLabels(call.arg))
               /\ DriverSum(mult_) = 1

C11_Witness == ThreeOnes /\ call.cleared /\ DOMAIN mult_ = {0} /\ mult_[0] = 1

\* the last call was generateXYZ(n) / generateM(l)
SeededU3 == kind = "UNtoU3" /\ call.op = "generateXYZ"
SeededSO3 == kind = "UNtoSO3" /\ call.op = "generateM"

\* C13: after generateXYZ(n), whatever the table held before, the table has
\* (n+1)(n+2)/2 entries; the entry at index k(k+1)/2 + (k - nx), for k = 0..n
\* and nx = k down to 0, is nz = n - k, nx, ny = k - nx; every entry adds up
\* to n and no two entries are equal
C13_QuantaTableU3 ==
  SeededU3 =>
    LET n == call.arg[1]
    IN /\ Len(xyz_) = ((n + 1) * (n + 2)) \div 2
       /\ \A k \in 0..n : \A nx \in 0..k :
            XYZAt(xyz_, (k * (k + 1)) \div 2 + (k - nx)) = <<n - k, nx, k - nx>>
       /\ \A i \in 1..Len(xyz_) : xyz_[i][1] + xyz_[i][2] + xyz_[i][3] = n
       /\ \A i, j \in 1..Len(xyz_) : xyz_[i] = xyz_[j] => i = j

C13_Witness ==
  /\ SeededU3 /\ call.arg = <<3>> /\ call.reseeded
  /\ xyz_ = << <<3, 0, 0>>, <<2, 1, 0>>, <<2, 0, 1>>,
               <<1, 2, 0>>, <<1, 1, 1>>, <<1, 0, 2>>,
               <<0, 3, 0>>, <<0, 2, 1>>, <<0, 1, 2>>, <<0, 0, 3>> >>

\* C14: after generateM(l), whatever the table held before, the table has
\* 2l+1 entries and the entry at index i is i - l
C14_QuantaTableSO3 ==
  SeededSO3 =>
    LET l == call.arg[1]
    IN /\ Len(m_) = 2 * l + 1
       /\ \A i \in 0..(2 * l) : MAt(m_, i) = i - l

C14_Witness ==
  /\ SeededSO3 /\ call.arg = <<5>> /\ call.reseeded
  /\ m_ = <<-5, -4, -3, -2, -1, 0, 1, 2, 3, 4, 5>>

\* the last call enumerated, to its end, the row of one 1 and zeros only that
\* has as many labels as the table of the shell has entries
SingleParticle ==
  /\ TeamDone /\ kind = "UNtoU3"
  /\ call.arg = <<0, 0, 0, 1, Len(xyz_) - 1>>

\* C12: for the row of one particle in shell n (n1 = 1, n0 = (n+1)(n+2)/2 - 1)
\* the keys of the table of multiplicities are the triples of HO quanta of
\* shell n, all of them and nothing else, each with multiplicity 1
C12_SingleParticle ==
  SingleParticle =>
    /\ DOMAIN mult_ = {xyz_[i] : i \in 1..Len(xyz_)}
    /\ \A f \in DOMAIN mult_ : mult_[f] = 1
    /\ Cardinality(DOMAIN mult_) = Len(xyz_)

C12_Witness ==
  /\ SingleParticle /\ Len(xyz_) = 10 /\ call.cleared
  /\ Cardinality(DOMAIN mult_) = 10
  /\ mult_[<<3, 0, 0>>] = 1 /\ mult_[<<1, 1, 1>>] = 1 /\ mult_[<<0, 0, 3>>] = 1
  /\ \A w \in Workers : mult_tl_[w] # EmptyMap

\* ---- one level of the recursion

\* 4 n4 + 3 n3 + 2 n2 + n1: the sum of the labels of a row
LabelSum(gpr) == 4 * gpr[1] + 3 * gpr[2] + 2 * gpr[3] + gpr[4]

\* the rows mu with one label less than the row lambda that interlace with
\* it: lambda[i] >= mu[i] >= lambda[i+1].  The number of labels of a value
\* differs by at most one between mu and lambda (of equal neighbours of
\* lambda the label of mu between them is that value), so mu is looked for
\* among the rows whose five counts are within one of those of lambda
Interlacing(gpr) ==
  LET near(i) == {c \in (gpr[i] - 1)..(gpr[i] + 1) : c >= 0}
      lambda == RowLabels(gpr)
  IN {r \in near(1) \X near(2) \X near(3) \X near(4) \X near(5) :
        /\ RowSum(r) = RowSum(gpr) - 1
        /\ \A i \in 1..RowSum(r) :
             /\ lambda[i] >= RowLabels(r)[i]
             /\ RowLabels(r)[i] >= lambda[i + 1]}

\* pp + k * m_[N], or the same for the three components of pp and xyz_[.][N]
Shifted(pp, k, N) ==
  IF kind = "UNtoSO3" THEN pp + k * MAt(m_, N)
  ELSE VAdd(pp, VScale(k, XYZAt(xyz_, N)))

\* a pass has been made since the table was seeded
Passed ==
  pass # <<>> /\ call.op \in {"generateSO3Weights", "generateU3Weights"}

\* the branches of the last pass: the calls it listed and what it left in
\* place, each a row with its pp
Branches == {pass.calls[i] : i \in 1..Len(pass.calls)} \cup {pass.left}

\* C15: the branches of one pass of the loop, the calls and the row left in
\* place, are the rows interlacing with the row the pass found, each once,
\* and each with pp raised by k times the quanta of entry N, k being the sum
\* of the labels of the row found less that of the branch
C15_BranchesInterlace ==
  Passed =>
    /\ Branches =
         {<<r, Shifted(pass.pp, LabelSum(pass.gpr) - LabelSum(r), pass.N)>> :
            r \in Interlacing(pass.gpr)}
    /\ Len(pass.calls) + 1 = Cardinality(Interlacing(pass.gpr))
    /\ \A i, j \in 1..Len(pass.calls) :
         pass.calls[i][1] = pass.calls[j][1] => i = j
    /\ \A i \in 1..Len(pass.calls) : pass.calls[i][1] # pass.left[1]

\* a pass on the row with every group taken: sixteen branches
C15_Witness ==
  /\ Passed /\ kind = "UNtoSO3" /\ Len(m_) = 5
  /\ pass.gpr = <<1, 1, 1, 1, 1>>
  /\ Len(pass.calls) = 15
  /\ pass.left = << <<1, 1, 1, 1, 0>>, 0 >>
  /\ << <<0, 2, 0, 2, 0>>, 4 >> \in Branches

\* the number of components in which two rows differ
Differing(a, b) == Cardinality({i \in 1..5 : a[i] # b[i]})

\* C16: a pass of the loop lowers one component of the row by one and leaves
\* the others; every frame has N one less than the labels of its row, at the
\* head of the loop and in the base case; every row called has one label
\* less than the row of the caller; the entry N a pass reads, and entry 0 the
\* base case reads, lie inside the table
C16_TailLoop ==
  /\ Passed =>
       /\ Differing(pass.gpr, pass.left[1]) = 1
       /\ RowSum(pass.left[1]) = RowSum(pass.gpr) - 1
       /\ \A i \in 1..5 : pass.left[1][i] <= pass.gpr[i]
       /\ \A i \in 1..Len(pass.calls) :
            RowSum(pass.calls[i][1]) = RowSum(pass.gpr) - 1
       /\ pass.N >= 0 /\ pass.N < Len(Table)
  /\ \A d \in 1..Len(stack) :
       /\ stack[d].N = RowSum(stack[d].gpr) - 1
       /\ stack[d].N >= 0 /\ stack[d].N < Len(Table)
  /\ stack # <<>> => Len(Table) > 0

\* a pass that dropped a three in place after calls of its block of fours
C16_Witness ==
  /\ Passed /\ stack # <<>>
  /\ pass.gpr = <<1, 2, 0, 0, 0>> /\ pass.left[1] = <<1, 1, 0, 0, 0>>
  /\ Len(pass.calls) = 1
  /\ stack[Len(stack)].gpr = <<1, 1, 0, 0, 0>> /\ stack[Len(stack)].N = 1

\* the recursion followed call by call has returned
WalkDone ==
  /\ stack = <<>> /\ status = "ok"
  /\ call.op \in {"generateSO3Weights", "generateU3Weights"}

\* what the build without tail call elimination leaves in mult_ for the row
\* of the call
NoTCEMap ==
  IF kind = "UNtoSO3"
  THEN MapMerge(EmptyMap, SO3RecNoTCE(m_, call.arg, 0))
  ELSE MapMerge(EmptyMap, U3RecNoTCE(xyz_, call.arg, <<0, 0, 0>>))

\* C17: for a row with as many labels as the table has entries, the table of
\* multiplicities the loop with its drops in place leaves is the one the
\* build with a recursive call for every drop leaves
C17_TCEEquivalence == WalkDone => mult_ = NoTCEMap

\* an enumeration whose frames dropped fours, threes, twos and ones in place
C17_Witness ==
  /\ WalkDone /\ kind = "UNtoSO3" /\ call.arg = <<1, 1, 1, 1, 1>>
  /\ SO3Total(mult_) = 1024
  /\ mult_ = NoTCEMap


\* a thread has started adding its map to mult_
FoldStarted(w) == pc[w] \in {"folding", "end"}

\* the recursion of the top row and every task created have ended, and every
\* thread has passed the barrier that ends the single construct
EnumerationOver ==
  /\ pool = EmptyMap
  /\ \A v \in Workers : run[v] = <<>>
  /\ \A v \in Workers : pc[v] \in {"critical", "folding", "end"}

\* the maps of the threads 1..k added into an empty map, each once
RECURSIVE FoldedUpTo(_)
FoldedUpTo(k) ==
  IF k = 0 THEN EmptyMap ELSE MapMerge(FoldedUpTo(k - 1), mult_tl_[k])

\* the places of a thread in one call of generateSO3Weights /
\* generateU3Weights, in the only order it goes through them
TeamOrder ==
  {<<"outside", "clear">>, <<"clear", "single">>, <<"single", "root">>,
   <<"single", "barrier">>, <<"root", "barrier">>, <<"barrier", "critical">>,
   <<"critical", "folding">>, <<"folding", "end">>, <<"end", "outside">>}

\* the step in which thread w adds its map to mult_
FoldStep(w) ==
  /\ pc[w] = "folding" /\ pc'[w] = "end"
  /\ mult_' = MapMerge(mult_, mult_tl_[w])

\* C18: in the build with OpenMP, no thread starts adding its map to mult_
\* before the recursion of the top row and every task created have ended; at
\* most one thread at a time is adding its map; a thread goes through the
\* places of the parallel region in one order, so that it adds its map once
\* in every enumeration, and when all have done so mult_ holds every map
\* added once; and mult_ changes only when the caller clears it before the
\* team starts and when a thread adds its map, never while a call of the
\* recursion or a task is running or waiting
C18_MergeDiscipline ==
  /\ [](/\ \A w \in Workers : FoldStarted(w) => EnumerationOver
        /\ Cardinality({w \in Workers : pc[w] = "folding"}) <= 1
        /\ AllAt("end") => mult_ = FoldedUpTo(NumWorkers))
  /\ [][/\ \A w \in Workers :
             pc'[w] # pc[w] => <<pc[w], pc'[w]>> \in TeamOrder
        /\ mult_' # mult_ =>
             \/ AllAt("outside")
             \/ EnumerationOver /\ \E w \in Workers : FoldStep(w)
        /\ \A w \in Workers :
             (pc[w] = "folding" /\ pc'[w] # pc[w]) => FoldStep(w)]_vars

\* one thread has added its map, the other is adding its own, and both ran
\* part of the enumeration
C18_Witness ==
  /\ kind = "UNtoSO3" /\ call.op = "generateSO3Weights"
  /\ pc[1] = "end" /\ pc[2] = "folding"
  /\ mult_tl_[1] # EmptyMap /\ mult_tl_[2] # EmptyMap
  /\ mult_ = mult_tl_[1]


\* the number of tasks t waiting in the pool P
PoolCount(P, t) == IF t \in DOMAIN P THEN P[t] ELSE 0

\* the children of the call s of a thread: the rows interlacing with its row,
\* each with pp raised by the quanta of entry N for the labels dropped
ChildrenOf(s) ==
  {<<r, Shifted(s.pp, LabelSum(s.gpr) - LabelSum(r), s.N)>> :
     r \in Interlacing(s.gpr)}

\* thread w makes a pass of its call that creates tasks
PassStep(w) == run[w] # <<>> /\ run'[w] # <<>> /\ run'[w] # run[w]

\* thread w starts a task
TakeStep(w) == pc[w] = "barrier" /\ run[w] = <<>> /\ run'[w] # <<>>

\* thread w ends the call it runs
FinishStep(w) == run[w] # <<>> /\ run'[w] = <<>>

\* C19: a pass that creates tasks leaves in the pool one task for every child
\* of the row and pp the pass found, except the child the parent goes on with
\* in place, and changes no task already waiting, although it changes the
\* row, pp and N of the parent; a thread that starts a task runs the row and
\* pp of a task of the pool, with N of that row, whatever the calls under way
\* are now; and a step of a call or a task changes no table of quanta, not
\* mult_, and no map but that of the thread that runs it, whose counts it
\* only raises
C19_TaskIsolation ==
  [][\A w \in Workers :
       /\ PassStep(w) =>
            LET s == run[w][1]
                left == <<run'[w][1].gpr, run'[w][1].pp>>
            IN /\ run'[w][1].gpr # s.gpr /\ run'[w][1].N = s.N - 1
               /\ left \in ChildrenOf(s)
               /\ \A t \in ChildrenOf(s) \cup DOMAIN pool \cup DOMAIN pool' :
                    PoolCount(pool', t) - PoolCount(pool, t) =
                      IF t \in ChildrenOf(s) /\ t # left THEN 1 ELSE 0
       /\ TakeStep(w) =>
            \E t \in DOMAIN pool :
              /\ run'[w][1].gpr = t[1] /\ run'[w][1].pp = t[2]
              /\ run'[w][1].N = RowSum(t[1]) - 1
              /\ \A u \in DOMAIN pool \cup DOMAIN pool' :
                   PoolCount(pool', u) =
                     PoolCount(pool, u) - (IF u = t THEN 1 ELSE 0)
       /\ (PassStep(w) \/ TakeStep(w) \/ FinishStep(w)) =>
            /\ m_' = m_ /\ xyz_' = xyz_ /\ mult_' = mult_
            /\ \A v \in Workers \ {w} :
                 mult_tl_'[v] = mult_tl_[v] /\ run'[v] = run[v]
            /\ \A k \in DOMAIN mult_tl_[w] :
                 k \in DOMAIN mult_tl_'[w] /\ mult_tl_'[w][k] >= mult_tl_[w][k]
       /\ FinishStep(w) => mult_tl_'[w] # mult_tl_[w]]_vars

\* the call of the top row has ended on one thread, which left tasks in the
\* pool, and another thread has just started the first task it runs, a child
\* of the top row
C19_Witness ==
  /\ kind = "UNtoSO3" /\ call.op = "generateSO3Weights"
  /\ call.arg = <<0, 0, 0, 2, 9>>
  /\ pc[1] = "barrier" /\ run[1] = <<>> /\ mult_tl_[1] # EmptyMap
  /\ pc[2] = "barrier" /\ mult_tl_[2] = EmptyMap
  /\ run[2] = <<TaskState(<<0, 0, 0, 1, 9>>, MAt(m_, 10))>>
  /\ pool # EmptyMap


\* the least k with 2^k >= n
RECURSIVE Log2Ceil(_)
Log2Ceil(n) == IF n <= 1 THEN 0 ELSE 1 + Log2Ceil((n + 1) \div 2)

\* the calls of generateSO3WeightsRec / generateU3WeightsRec under way, the
\* call of the top row counted
Depth == Len(stack)

\* C20 as stated: with the tail call elimination the calls under way are
\* never more than a multiple of the logarithm of the number S of labels of
\* the top row, here twice the logarithm to base 2 and two more
C20_DepthLogarithmic ==
  stack # <<>> => Depth <= 2 * Log2Ceil(RowSum(call.arg)) + 2

\* C20: with the tail call elimination the calls under way are at most as
\* many as the top row has labels, S, and for a top row of ones and zeros at
\* most the number of its ones and one more; both bounds are linear in S
C20_DepthLinear ==
  stack # <<>> =>
    /\ Depth <= RowSum(call.arg)
    /\ call.arg[1] + call.arg[2] + call.arg[3] = 0 => Depth <= call.arg[4] + 1

\* eleven calls under way for a top row of eleven labels, ten ones and a
\* zero: the call of the row of the single label 0 is running
C20_Witness ==
  /\ kind = "UNtoSO3" /\ call.arg = <<0, 0, 0, 10, 1>>
  /\ Depth = 11
  /\ stack[Depth].gpr = <<0, 0, 0, 0, 1>> /\ stack[Depth].N = 0
  /\ \A i \in 1..(Depth - 1) : stack[i].tasks = <<>>


\* the rows of one to three labels, twos, ones and zeros, that fit the table
Compositions ==
  {r \in PreRows : r[1] = 0 /\ r[2] = 0 /\ RowSum(r) >= 1
                   /\ RowSum(r) <= PreDepth + 1 /\ RowSum(r) <= Len(Table)}

\* what the base case of the build with the precalculation enters for the
\* row r reached with pp = 0
Tabulated(r) ==
  LET s == [gpr |-> r, pp |-> ZeroWeight, out |-> EmptyMap]
  IN IF kind = "UNtoSO3" THEN SO3EmitPre(PreTables, s)
     ELSE U3EmitPre(PreTables, s)

\* what the recursion of the build without it enters from the row r, pp = 0
Recursed(r) ==
  IF kind = "UNtoSO3" THEN generateSO3WeightsRec(m_, r, 0)
  ELSE generateU3WeightsRec(xyz_, r, <<0, 0, 0>>)

\* the entries of conts_ one row takes, and the entries of conts_ of a row
Stride == IF kind = "UNtoSO3" THEN 1 ELSE Components
Block(r) == {i \in 0..(Len(conts_) - 1) :
               ptr_[r] <= i /\ i < ptr_[r] + Stride * cnt_[r]}

\* cnt_ and conts_ hold, for every row of one to three labels that fits the
\* table, the leaves of the recursion from that row
TablesAgree ==
  \A r \in Compositions :
    /\ (IF cnt_[r] = 0 THEN 1 ELSE cnt_[r]) = MapTotal(Recursed(r), [w \in DOMAIN Recursed(r) |-> 0])
    /\ Tabulated(r) = Recursed(r)

\* the blocks of the rows with a count tile conts_: sixteen rows, every
\* entry of conts_ in the block of exactly one
BlocksTile ==
  /\ DOMAIN ptr_ = {r \in PreRows : cnt_[r] > 0}
  /\ Cardinality(DOMAIN ptr_) = 16
  /\ Len(conts_) = Stride * ContsSize
  /\ \A i \in 0..(Len(conts_) - 1) :
       Cardinality({r \in DOMAIN ptr_ : i \in Block(r)}) = 1

\* the last call seeded the table in the build with the precalculation
PreSeeded == cnt_ # EmptyMap /\ call.op \in {"generateM", "generateXYZ"}

\* the last call enumerated a row of twos, ones and zeros in that build
PreEnumerated ==
  /\ cnt_ # EmptyMap /\ call.op \in {"generateSO3Weights", "generateU3Weights"}
  /\ call.arg[1] = 0 /\ call.arg[2] = 0

\* C21: in the build with the precalculation, once generateM / generateXYZ
\* has returned, the tables hold for every row of twos, ones and zeros of one
\* to three labels the leaves of the recursion from that row, count and
\* weights, the sixteen blocks tile conts_, and an enumeration of a row of
\* twos, ones and zeros with as many labels as the table has entries leaves
\* the map the build without the precalculation leaves
C21_PrecalcAgrees ==
  /\ PreSeeded => (status = "ok" /\ TablesAgree /\ BlocksTile)
  /\ PreEnumerated => mult_ = MapMerge(EmptyMap, Recursed(call.arg))

\* the same for the tables of three entries and more, the only ones
\* init_conts does not read past the end of
PrecalcAgreesFromThree ==
  /\ (PreSeeded /\ Len(Table) >= PreDepth + 1) =>
       (status = "ok" /\ TablesAgree /\ BlocksTile)
  /\ PreEnumerated => mult_ = MapMerge(EmptyMap, Recursed(call.arg))

\* generateM(0) / generateXYZ(0): init_conts has read m_[1] and m_[2] (resp.
\* xyz_[.][1] and xyz_[.][2]) of a table of one entry
C21_Witness ==
  PreSeeded /\ Len(Table) = 1 /\ status = "undefined"

\* an enumeration in that build whose loop ran before the rows were looked up
PrecalcLoopRan ==
  /\ PreEnumerated /\ kind = "UNtoSO3" /\ call.arg = <<0, 0, 2, 2, 1>>
  /\ mult_ # EmptyMap


\* |x|, and the sum of the three components of a U(3) weight
Abs(x) == IF x < 0 THEN -x ELSE x
VSum(w) == w[1] + w[2] + w[3]

\* l of the table m_ (2l + 1 entries) and n of the table xyz_ (every entry
\* has n quanta)
SeededLOf(m) == (Len(m) - 1) \div 2
SeededNOf(xyz) == VSum(XYZAt(xyz, 0))

\* a table of quanta that are all 1: on it pp is the sum of the multipliers
UnitTable(size) == [i \in 1..size |-> 1]

\* the recursion from the top row is under way or has returned
Walking ==
  /\ call.op \in {"generateSO3Weights", "generateU3Weights"} /\ status = "ok"
  /\ Len(Table) = RowSum(call.arg)

\* the multipliers applied on the way to a call or loop head with the row
\* gpr, if they and the labels of gpr make up the labels of the top row
Applied(gpr) == LabelSum(call.arg) - LabelSum(gpr)

\* C22: at every call and every loop head of the recursion the multipliers
\* applied so far and 4 n4 + 3 n3 + 2 n2 + n1 of the row make up that sum of
\* the top row: for U(3) the components of pp sum to n times the multipliers
\* applied, for SO(3) |pp| is at most l times them, and on a table of ones,
\* where pp is the sum of the multipliers, every leaf of the top row has the
\* sum of the top row; every U(3) key of the map sums to n times that sum of
\* the top row and every SO(3) key is at most l times it in absolute value
C22_WeightConservation ==
  Walking =>
    /\ \A i \in 1..Len(stack) :
         /\ stack[i].N = RowSum(stack[i].gpr) - 1
         /\ Applied(stack[i].gpr) >= 0
         /\ IF kind = "UNtoU3"
            THEN VSum(stack[i].pp) = SeededNOf(xyz_) * Applied(stack[i].gpr)
            ELSE Abs(stack[i].pp) <= SeededLOf(m_) * Applied(stack[i].gpr)
    /\ \A w \in DOMAIN mult_ :
         IF kind = "UNtoU3"
         THEN VSum(w) = SeededNOf(xyz_) * LabelSum(call.arg)
         ELSE Abs(w) <= SeededLOf(m_) * LabelSum(call.arg)
    /\ (stack = <<>> /\ kind = "UNtoSO3") =>
         DOMAIN generateSO3WeightsRec(UnitTable(Len(m_)), call.arg, 0)
           = {LabelSum(call.arg)}

\* a call two levels below the top row (0,0,0,5,5) on the table of n = 3, two
\* ones dropped with their quanta, after leaves have been entered
C22_Witness ==
  /\ kind = "UNtoU3" /\ Walking /\ call.arg = <<0, 0, 0, 5, 5>>
  /\ Len(stack) = 3 /\ stack[3].gpr[4] = 3
  /\ VSum(stack[3].pp) = 6
  /\ mult_ # EmptyMap


\* the number of increments a map holds
Increments(f) == MapTotal(f, [w \in DOMAIN f |-> 0])

\* the rows the calls of a team can have: ones and zeros, with no more labels
\* than the longest table the team is given
TeamLabels ==
  {Len(generateM(<<>>, l)) : l \in {MaxL, TaskL}}
    \cup {Len(generateXYZ(<<>>, n)) : n \in MaxN..TaskN}
TeamCalls ==
  {r \in {<<0, 0, 0, n1, n0>> : n1 \in 0..MaxOnes,
                                 n0 \in 0..(CHOOSE k \in TeamLabels :
                                              \A j \in TeamLabels : j <= k)} :
     RowSum(r) > 0 /\ \E k \in TeamLabels : RowSum(r) <= k}

\* the number of leaves below a call with the row r, every call below it
\* made at once: it is the same for every table and every pp, and is counted
\* here on the table of zeros
SO3Leaves ==
  [r \in TeamCalls |->
     Increments(generateSO3WeightsRec([i \in 1..RowSum(r) |-> 0], r, 0))]
U3Leaves ==
  [r \in TeamCalls |->
     Increments(generateU3WeightsRec([i \in 1..RowSum(r) |-> <<0, 0, 0>>], r,
                                     <<0, 0, 0>>))]
LeavesOf(r) == IF kind = "UNtoSO3" THEN SO3Leaves[r] ELSE U3Leaves[r]

\* the leaves of the call a thread is running that it has yet to enter (at a
\* loop head the row has N + 1 labels, as at the entry of a call), and the
\* leaves of a task waiting in the pool
LeavesOfRun(s) == LeavesOf(s.gpr)
LeavesOfTask(t) == LeavesOf(t[1])

\* a thread has cleared its map in the enumeration under way
HasCleared(w) == pc[w] \notin {"outside", "clear"}

\* the call of the top row has been entered
RootStarted == \E w \in Workers : pc[w] \notin {"outside", "clear", "single"}

\* the leaves entered so far in the maps of the threads that have cleared
\* theirs, and the leaves still to enter
Entered ==
  SumOver([w \in Workers |-> IF HasCleared(w) THEN Increments(mult_tl_[w]) ELSE 0],
          Workers)
ToEnter ==
  IF RootStarted
  THEN SumOver([t \in DOMAIN pool |-> pool[t] * LeavesOfTask(t)], DOMAIN pool)
       + SumOver([w \in Workers |->
                    IF run[w] = <<>> THEN 0 ELSE LeavesOfRun(run[w][1])], Workers)
  ELSE LeavesOfTask(<<call.arg, ZeroWeight>>)

\* C23: in the build with OpenMP, from the start of the team to its end the
\* leaves entered in the maps of the threads that have cleared theirs and
\* the leaves of the calls running and the tasks waiting are together the
\* leaves of the top row: no clear removes a leaf entered in the enumeration
\* under way; a thread that has yet to clear runs nothing; a call under way
\* stands at a loop head with one label more than N; a map loses
\* entries only in the clear of its thread; and when every thread has added
\* its map, mult_ holds every leaf
C23_NoLostEmission ==
  /\ [](~AllAt("outside") =>
          /\ Entered + ToEnter = LeavesOfTask(<<call.arg, ZeroWeight>>)
          /\ \A w \in Workers : pc[w] \in {"clear", "single"} => run[w] = <<>>
          /\ \A w \in Workers :
                run[w] # <<>> => run[w][1].N = RowSum(run[w][1].gpr) - 1
          /\ AllAt("end") => Increments(mult_) = Entered)
  /\ [][\A w \in Workers :
          (\E k \in DOMAIN mult_tl_[w] :
             k \notin DOMAIN mult_tl_'[w] \/ mult_tl_'[w][k] < mult_tl_[w][k])
          => (pc[w] = "clear" /\ pc'[w] = "single")]_vars

\* a thread has run tasks and entered leaves while another has yet to clear
\* the map it filled in an earlier enumeration
C23_Witness ==
  /\ kind = "UNtoSO3" /\ call.arg = <<0, 0, 0, 2, 9>>
  /\ pc[1] = "barrier" /\ mult_tl_[1] # EmptyMap /\ pool # EmptyMap
  /\ pc[2] = "clear" /\ mult_tl_[2] # EmptyMap

\* a block given out, not freed, and held by no thread: nothing can free it
Leaked(b) == heap[b] = "allocated" /\ \A w \in Workers : tlptr[w] # b

\* no member function is under way
AtRest == status = "ok" /\ AllAt("outside")

\* C24: for every sequence of constructions, destructions and enumerations
\* on two objects of one instantiation, whenever an object is live the
\* pointer of every thread holds a block allocated and not freed, no block
\* is leaked, and no member function has run into undefined behaviour
C24_MapLifetime ==
  /\ status # "undefined"
  /\ AtRest /\ live # {} => \A w \in Workers : Allocated(w)
  /\ AtRest => \A b \in 1..Len(heap) : ~Leaked(b)

\* as long as no block has leaked, which is as long as no constructor has run
\* while an object was live, the pointers of a live object hold allocated
\* blocks and nothing undefined has happened
LifetimeOfOneObject ==
  (\A b \in 1..Len(heap) : ~Leaked(b))
    => /\ status = "ok"
       /\ AtRest /\ live # {} => \A w \in Workers : Allocated(w)

\* the object a is live, b has been constructed after it and destroyed, and
\* the enumeration on a has dereferenced a freed block; the blocks of the
\* constructor of a are leaked
C24_Witness ==
  /\ live = {"a"} /\ call = [op |-> "enumerate", arg |-> "a"]
  /\ status = "undefined"
  /\ \E w \in Workers : tlptr[w] # 0 /\ heap[tlptr[w]] = "freed"
  /\ \A b \in 1..NumWorkers : Leaked(b)

\* both objects destroyed: the destructor that ran second has deleted the
\* blocks the first had freed
DoubleFree ==
  /\ call.op = "destruct" /\ status = "undefined" /\ live = {}
  /\ \A b \in 1..Len(heap) : heap[b] = "freed" \/ Leaked(b)

====
